---------------------------- MODULE Spec2Model ----------------------------
(***************************************************************************)
(* Model of the transcript record parser (ChatRequest.Request) and the     *)
(* session aggregator (ChatSession.Chat) of copilot-chat-manager.          *)
(*                                                                         *)
(* JSON values are tagged records: [str |-> chars], [int |-> n],           *)
(* [bool |-> b], [null |-> TRUE], [list |-> <<...>>]; a JSON object (a     *)
(* Python dict) is a function from its keys to JSON values.  A string is   *)
(* the sequence of its characters, so that len(), strip() and += are what  *)
(* they are in Python.                                                     *)
(***************************************************************************)
EXTENDS Integers, Sequences, FiniteSets, TLC

\* Bounds of the model.
MaxItems == 3
MaxRequests == 2
MaxRegions == 2
MaxBuilds == 2

-----------------------------------------------------------------------------
\* JSON values

JStr(s) == [str |-> s]
JInt(n) == [int |-> n]
JBool(b) == [bool |-> b]
JNull == [null |-> TRUE]
JList(l) == [list |-> l]
EmptyDict == <<>>

IsStr(v) == DOMAIN v = {"str"}
IsInt(v) == DOMAIN v = {"int"}
IsList(v) == DOMAIN v = {"list"}
\* isinstance(v, dict)
IsDict(v) == DOMAIN v \cap {"str", "int", "bool", "null", "list"} = {}
\* d.get(k, default)
Get(d, k, default) == IF k \in DOMAIN d THEN d[k] ELSE default
\* bool(v) for the values a uri takes
Truthy(v) ==
    IF IsStr(v) THEN v.str # <<>>
    ELSE IF IsList(v) THEN v.list # <<>>
    ELSE IF IsDict(v) THEN DOMAIN v # {}
    ELSE IF IsInt(v) THEN v.int # 0
    ELSE IF DOMAIN v = {"bool"} THEN v.bool
    ELSE FALSE

-----------------------------------------------------------------------------
\* Characters and strings

\* The backquote character, which a TLA+ string literal cannot hold.
BQ == "BACKQUOTE"

MD_BLOCK_QUOTE_BOOKEND == <<BQ, BQ, BQ>>
MD_INLINE_QUOTE_BOOKEND == <<BQ>>

K_toolInvocation == <<"t", "o", "o", "l", "I", "n", "v", "o", "c", "a", "t", "i", "o", "n">>
K_hidden == <<"h", "i", "d", "d", "e", "n">>
K_textEditGroup == <<"t", "e", "x", "t", "E", "d", "i", "t", "G", "r", "o", "u", "p">>
K_inlineReference == <<"i", "n", "l", "i", "n", "e", "R", "e", "f", "e", "r", "e", "n", "c", "e">>
K_codeblockUri == <<"c", "o", "d", "e", "b", "l", "o", "c", "k", "U", "r", "i">>
K_confirmation == <<"c", "o", "n", "f", "i", "r", "m", "a", "t", "i", "o", "n">>
K_command == <<"c", "o", "m", "m", "a", "n", "d">>
K_extensions == <<"e", "x", "t", "e", "n", "s", "i", "o", "n", "s">>
K_prepareToolInvocation == <<"p", "r", "e", "p", "a", "r", "e", "T", "o", "o", "l", "I", "n", "v", "o", "c", "a", "t", "i", "o", "n">>
K_progressMessage == <<"p", "r", "o", "g", "r", "e", "s", "s", "M", "e", "s", "s", "a", "g", "e">>
K_progressTaskSerialized == <<"p", "r", "o", "g", "r", "e", "s", "s", "T", "a", "s", "k", "S", "e", "r", "i", "a", "l", "i", "z", "e", "d">>
K_markdownVuln == <<"m", "a", "r", "k", "d", "o", "w", "n", "V", "u", "l", "n">>
K_toolInvocationSerialized == <<"t", "o", "o", "l", "I", "n", "v", "o", "c", "a", "t", "i", "o", "n", "S", "e", "r", "i", "a", "l", "i", "z", "e", "d">>
K_undoStop == <<"u", "n", "d", "o", "S", "t", "o", "p">>

SKIPPED_RESPONSE_KINDS ==
    { K_codeblockUri, K_confirmation, K_command, K_extensions,
      K_prepareToolInvocation, K_progressMessage, K_progressTaskSerialized,
      K_markdownVuln, K_toolInvocationSerialized, K_undoStop }

UNKNOWN_FILE == <<"*", "*", "u", "n", "k", "n", "o", "w", "n", " ", "f", "i", "l", "e", "*", "*">>
UNKNOWN_REFERENCE == <<"*", "*", "u", "n", "k", "n", "o", "w", "n", " ", "r", "e", "f", "e", "r", "e", "n", "c", "e", "*", "*">>
NO_RESPONSE == <<"_", "N", "o", " ", "r", "e", "s", "p", "o", "n", "s", "e", "_">>

\* str.strip(): the whitespace it removes from both ends
Whitespace == {" ", "\t", "\n", "\r", "\f"}

RECURSIVE LStrip(_)
LStrip(s) == IF s # <<>> /\ Head(s) \in Whitespace THEN LStrip(Tail(s)) ELSE s

RECURSIVE RStrip(_)
RStrip(s) ==
    IF s # <<>> /\ s[Len(s)] \in Whitespace THEN RStrip(SubSeq(s, 1, Len(s) - 1)) ELSE s

Strip(s) == RStrip(LStrip(s))

DigitChar == <<"0", "1", "2", "3", "4", "5", "6", "7", "8", "9">>

RECURSIVE NatToStr(_)
NatToStr(n) ==
    IF n < 10 THEN <<DigitChar[n + 1]>>
    ELSE NatToStr(n \div 10) \o <<DigitChar[(n % 10) + 1]>>

\* str(n) of an int
IntToStr(n) == IF n < 0 THEN <<"-">> \o NatToStr(0 - n) ELSE NatToStr(n)

\* ord(c) of the characters that line-number strings are made of
Ord(c) == CHOOSE i \in 0..9 : DigitChar[i + 1] = c

\* a > b of two str values: lexicographic by code point
RECURSIVE StrGreater(_, _)
StrGreater(a, b) ==
    IF a = <<>> THEN FALSE
    ELSE IF b = <<>> THEN TRUE
    ELSE IF Head(a) # Head(b) THEN Ord(Head(a)) > Ord(Head(b))
    ELSE StrGreater(Tail(a), Tail(b))

\* f"{v}" of a JSON leaf value
PyStr(v) ==
    IF IsStr(v) THEN v.str
    ELSE IF IsInt(v) THEN IntToStr(v.int)
    ELSE <<"N", "o", "n", "e">>


-----------------------------------------------------------------------------
\* Keys and iteration

\* The keys the records of a document carry, in sorted order (the order
\* sorted() gives str keys), and the characters of each
AllKeys ==
    <<"creationDate", "edits", "endLineNumber", "fsPath",
      "inlineReference", "isCanceled", "kind", "lastMessageDate",
      "message", "name", "path", "presentation",
      "range", "requests", "response", "scheme",
      "startLineNumber", "text", "uri", "value">>
KeyChars(k) ==
    CASE k = "creationDate" -> <<"c", "r", "e", "a", "t", "i", "o", "n", "D", "a", "t", "e">>
      [] k = "edits" -> <<"e", "d", "i", "t", "s">>
      [] k = "endLineNumber" -> <<"e", "n", "d", "L", "i", "n", "e", "N", "u", "m", "b", "e", "r">>
      [] k = "fsPath" -> <<"f", "s", "P", "a", "t", "h">>
      [] k = "inlineReference" -> <<"i", "n", "l", "i", "n", "e", "R", "e", "f", "e", "r", "e", "n", "c", "e">>
      [] k = "isCanceled" -> <<"i", "s", "C", "a", "n", "c", "e", "l", "e", "d">>
      [] k = "kind" -> <<"k", "i", "n", "d">>
      [] k = "lastMessageDate" -> <<"l", "a", "s", "t", "M", "e", "s", "s", "a", "g", "e", "D", "a", "t", "e">>
      [] k = "message" -> <<"m", "e", "s", "s", "a", "g", "e">>
      [] k = "name" -> <<"n", "a", "m", "e">>
      [] k = "path" -> <<"p", "a", "t", "h">>
      [] k = "presentation" -> <<"p", "r", "e", "s", "e", "n", "t", "a", "t", "i", "o", "n">>
      [] k = "range" -> <<"r", "a", "n", "g", "e">>
      [] k = "requests" -> <<"r", "e", "q", "u", "e", "s", "t", "s">>
      [] k = "response" -> <<"r", "e", "s", "p", "o", "n", "s", "e">>
      [] k = "scheme" -> <<"s", "c", "h", "e", "m", "e">>
      [] k = "startLineNumber" -> <<"s", "t", "a", "r", "t", "L", "i", "n", "e", "N", "u", "m", "b", "e", "r">>
      [] k = "text" -> <<"t", "e", "x", "t">>
      [] k = "uri" -> <<"u", "r", "i">>
      [] k = "value" -> <<"v", "a", "l", "u", "e">>

\* The keys of d in the order of `order`
RECURSIVE KeysIn(_, _)
KeysIn(d, order) ==
    IF order = <<>> THEN <<>>
    ELSE IF Head(order) \in DOMAIN d THEN <<Head(order)>> \o KeysIn(d, Tail(order))
    ELSE KeysIn(d, Tail(order))

\* len(v) is defined for a str, a list and a dict, and a TypeError otherwise
HasLen(v) == IsStr(v) \/ IsList(v) \/ IsDict(v)
PyLen(v) ==
    IF IsStr(v) THEN Len(v.str)
    ELSE IF IsList(v) THEN Len(v.list)
    ELSE Cardinality(DOMAIN v)

\* `for x in v` takes the items of a list, the characters of a str and the
\* keys of a dict, and is a TypeError for anything else
Iterable(v) == IsStr(v) \/ IsList(v) \/ IsDict(v)
Iter(v) ==
    IF IsList(v) THEN v.list
    ELSE IF IsStr(v) THEN [i \in 1..Len(v.str) |-> JStr(<<v.str[i]>>)]
    ELSE [i \in 1..Cardinality(DOMAIN v) |-> JStr(KeyChars(KeysIn(v, AllKeys)[i]))]

-----------------------------------------------------------------------------
\* Rendering of one response item (Request.__init__, the body of the loop)

EditedFile == <<"E", "d", "i", "t", "e", "d", " ", "f", "i", "l", "e", ":", " ", BQ>>
Deleted == <<" ", " ", "-", " ", "d", "e", "l", "e", "t", "e", "d", " ">>
Added == <<" ", " ", "-", " ", "a", "d", "d", "e", "d", " ">>
CharWord == <<" ", "c", "h", "a", "r">>
OfText == <<" ", "o", "f", " ", "t", "e", "x", "t", ",", " ">>
LineWord == <<"l", "i", "n", "e", " ">>
ToWord == <<"t", "o", " ">>

\* plural with the comparison off by one
plural_FromOne(n) == IF n >= 1 THEN <<"s">> ELSE <<>>

\* plural = lambda n,s='s': s if n > 1 else ''
plural(n) == IF n > 1 THEN <<"s">> ELSE <<>>

\* a > b is defined for two ints and for two strs, and a TypeError otherwise
Comparable(a, b) == (IsInt(a) /\ IsInt(b)) \/ (IsStr(a) /\ IsStr(b))
Greater(a, b) == IF IsInt(a) THEN a.int > b.int ELSE StrGreater(a.str, b.str)

ParseError(responseValue) ==
    [responseValue |-> responseValue, raised |-> "ChatRequestParseError"]

\* One editRegion: what is appended to responseValue, or the raise.
EditRegion(editRegion, responseValue) ==
    IF ~IsDict(editRegion) THEN ParseError(responseValue)
    ELSE IF "text" \notin DOMAIN editRegion \/ ~HasLen(editRegion["text"])
    THEN ParseError(responseValue)
    ELSE
      LET text_len == PyLen(editRegion["text"])
          rv1 == responseValue \o
                   (IF text_len = 0 THEN Deleted
                    ELSE Added \o IntToStr(text_len) \o CharWord
                           \o plural(text_len) \o OfText)
      IN  IF "range" \notin DOMAIN editRegion THEN ParseError(rv1)
          ELSE IF ~IsDict(editRegion["range"]) THEN ParseError(rv1)
          ELSE IF "startLineNumber" \notin DOMAIN editRegion["range"] THEN ParseError(rv1)
          ELSE IF "endLineNumber" \notin DOMAIN editRegion["range"] THEN ParseError(rv1)
          ELSE
            LET line_start == editRegion["range"]["startLineNumber"]
                line_end == editRegion["range"]["endLineNumber"]
                rv2 == rv1 \o LineWord \o PyStr(line_start) \o <<" ">>
            IN  IF ~Comparable(line_end, line_start) THEN ParseError(rv2)
                ELSE [responseValue |->
                        rv2 \o (IF Greater(line_end, line_start)
                                THEN ToWord \o PyStr(line_end) \o <<"\n">>
                                ELSE <<"\n">>),
                      raised |-> ""]

\* for editRegion in edit
RECURSIVE EditRegions(_, _)
EditRegions(edit, acc) ==
    IF edit = <<>> \/ acc.raised # "" THEN acc
    ELSE EditRegions(Tail(edit), EditRegion(Head(edit), acc.responseValue))

\* for edit in resp.get('edits', []), each edit iterated in its turn (line
\* 100): an edit that cannot be iterated is a TypeError outside the try
RECURSIVE EditGroups(_, _)
EditGroups(edits, acc) ==
    IF edits = <<>> \/ acc.raised # "" THEN acc
    ELSE IF ~Iterable(Head(edits)) THEN [acc EXCEPT !.raised = "TypeError"]
    ELSE EditGroups(Tail(edits), EditRegions(Iter(Head(edits)), acc))

\* Lines 97-117 for a uri that is a dict
EditSummary(resp, header) ==
    IF ~Iterable(Get(resp, "edits", JList(<<>>)))
    THEN [responseValue |-> header, raised |-> "TypeError"]
    ELSE EditGroups(Iter(Get(resp, "edits", JList(<<>>))),
                    [responseValue |-> header, raised |-> ""])

\* The textEditGroup branch. A uri that is no dict has no get() (line 96).
TextEditGroup(resp, responseValue) ==
    IF ~IsDict(resp["uri"])
    THEN [responseValue |-> responseValue, raised |-> "AttributeError"]
    ELSE
      LET fsPath == Get(resp["uri"], "fsPath", JStr(UNKNOWN_FILE))
          header == responseValue \o EditedFile \o PyStr(fsPath) \o <<BQ, "\n">>
          body == EditSummary(resp, header)
      IN  IF body.raised # "" THEN body
          ELSE [body EXCEPT !.responseValue = @ \o <<"\n">>]

\* The keys of a reference object in sorted order (pformat sorts a dict's keys)
SortedKeys == <<"fsPath", "name", "path", "scheme">>

\* repr(v) of a str without quotes or escapes, and of an int
Repr(v) == IF IsStr(v) THEN <<"'">> \o v.str \o <<"'">> ELSE PyStr(v)

RECURSIVE PformatItems(_, _, _)
PformatItems(d, keys, first) ==
    IF keys = <<>> THEN <<>>
    ELSE IF Head(keys) \notin DOMAIN d THEN PformatItems(d, Tail(keys), first)
    ELSE (IF first THEN <<>> ELSE <<",", " ">>)
           \o <<"'">> \o KeyChars(Head(keys)) \o <<"'", ":", " ">>
           \o Repr(d[Head(keys)])
           \o PformatItems(d, Tail(keys), FALSE)

RECURSIVE ReprItems(_)
ReprItems(l) ==
    IF l = <<>> THEN <<>>
    ELSE Repr(Head(l)) \o (IF Tail(l) = <<>> THEN <<>> ELSE <<",", " ">> \o ReprItems(Tail(l)))

\* pprint.pformat(d) of a dict whose repr fits the line width, and of a str
\* and a list of strs and ints
pformat(d) ==
    IF IsStr(d) THEN Repr(d)
    ELSE IF IsList(d) THEN <<"[">> \o ReprItems(d.list) \o <<"]">>
    ELSE <<"{">> \o PformatItems(d, SortedKeys, TRUE) \o <<"}">>

\* The exception of lines 122-123, or "": an item without the reference
\* object is a KeyError, and `in` is a TypeError on a reference that is no
\* container (on a str and a list it is a search, which finds neither key in
\* the references of the model)
ReferenceError(resp) ==
    IF "inlineReference" \notin DOMAIN resp THEN "KeyError"
    ELSE IF Iterable(resp["inlineReference"]) THEN ""
    ELSE "TypeError"

\* InlineReference without the dump of an unknown reference
InlineReference_NoDump(resp, responseValue) ==
    LET inlineReference == resp["inlineReference"]
        ref0 == JStr(UNKNOWN_REFERENCE)
        ref1 == IF "fsPath" \in DOMAIN inlineReference
                THEN inlineReference["fsPath"] ELSE ref0
        ref == IF "name" \in DOMAIN inlineReference
               THEN inlineReference["name"] ELSE ref1
    IN  responseValue \o MD_INLINE_QUOTE_BOOKEND \o PyStr(ref)
          \o MD_INLINE_QUOTE_BOOKEND

\* The inlineReference branch.
InlineReference(resp, responseValue) ==
    LET inlineReference == resp["inlineReference"]
        ref0 == JStr(UNKNOWN_REFERENCE)
        ref1 == IF "fsPath" \in DOMAIN inlineReference
                THEN inlineReference["fsPath"] ELSE ref0
        ref == IF "name" \in DOMAIN inlineReference
               THEN inlineReference["name"] ELSE ref1
        rv1 == responseValue \o MD_INLINE_QUOTE_BOOKEND \o PyStr(ref)
                 \o MD_INLINE_QUOTE_BOOKEND
    IN  IF ref = JStr(UNKNOWN_REFERENCE)
        THEN rv1 \o <<"\n">> \o MD_BLOCK_QUOTE_BOOKEND \o pformat(inlineReference)
               \o MD_BLOCK_QUOTE_BOOKEND \o <<"\n">>
        ELSE rv1

\* Whether a plain-text value is appended (line 88).
AppendsValue(hiddenPresentation, v) ==
    ~hiddenPresentation /\ Strip(v) # MD_BLOCK_QUOTE_BOOKEND

\* Whether an item sets the suppression flag (line 81).
IsHiddenMarker(resp) ==
    /\ Get(resp, "kind", JStr(<<>>)) = JStr(K_toolInvocation)
    /\ Get(resp, "presentation", JStr(<<>>)) = JStr(K_hidden)

\* UnhandledKind that does not name the kind
UnhandledKind_NoName(kind) ==
    [level |-> "info", event |-> "skipping unhandled response kind", arg |-> JNull]

\* Log.info(f"skipping unhandled response kind: {resp['kind']}")
UnhandledKind(kind) ==
    [level |-> "info", event |-> "skipping unhandled response kind", arg |-> kind]

\* FlagAfter with a flag that holds for the marker's own item only
FlagAfter_NotSticky(hiddenPresentation, resp) == IsHiddenMarker(resp)

\* Lines 81-82: the flag after the item is looked at
FlagAfter(hiddenPresentation, resp) == hiddenPresentation \/ IsHiddenMarker(resp)

\* Lines 86-90: a plain-text value. v.strip() is evaluated when the flag is
\* not set, and only a str has it.
PlainValue(resp, st) ==
    IF st.hiddenPresentation THEN st
    ELSE IF ~IsStr(resp["value"]) THEN [st EXCEPT !.raised = "AttributeError"]
    ELSE IF AppendsValue(st.hiddenPresentation, resp["value"].str)
    THEN [st EXCEPT !.responseValue = @ \o resp["value"].str]
    ELSE st

\* Lines 96-117
FileEdit(resp, st) ==
    [st EXCEPT !.responseValue = TextEditGroup(resp, st.responseValue).responseValue,
               !.raised = TextEditGroup(resp, st.responseValue).raised]

\* Lines 121-127
Reference(resp, st) ==
    IF ReferenceError(resp) # "" THEN [st EXCEPT !.raised = ReferenceError(resp)]
    ELSE [st EXCEPT !.responseValue = InlineReference(resp, @)]

\* Lines 85-140 for an item that is a dict, after the flag is set
Branch(resp, kind, st) ==
    IF "value" \in DOMAIN resp /\ "kind" \notin DOMAIN resp THEN PlainValue(resp, st)
    ELSE IF kind = JStr(K_textEditGroup) /\ Truthy(Get(resp, "uri", JStr(<<>>)))
    THEN FileEdit(resp, st)
    ELSE IF kind = JStr(K_inlineReference) THEN Reference(resp, st)
    ELSE IF IsStr(kind) /\ kind.str \in SKIPPED_RESPONSE_KINDS THEN st
    ELSE IF "kind" \in DOMAIN resp
    THEN [st EXCEPT !.Log = Append(@, UnhandledKind(resp["kind"]))]
    ELSE st

\* RenderItem taking every item with a value for plain text, kind or not
RenderItem_ValueAnyKind(resp, st) ==
    IF ~IsDict(resp) THEN st
    ELSE IF "value" \in DOMAIN resp
    THEN PlainValue(resp, [st EXCEPT !.hiddenPresentation = FlagAfter(@, resp)])
    ELSE Branch(resp, Get(resp, "kind", JStr(<<>>)),
                [st EXCEPT !.hiddenPresentation = FlagAfter(@, resp)])

\* One iteration of `for resp in responses`, on the loop's state
\* st = [responseValue, hiddenPresentation, Log, raised].
RenderItem(resp, st) ==
    IF ~IsDict(resp) THEN st
    ELSE Branch(resp, Get(resp, "kind", JStr(<<>>)),
                [st EXCEPT !.hiddenPresentation = FlagAfter(@, resp)])

\* for resp in responses
RECURSIVE RenderItems(_, _)
RenderItems(responses, st) ==
    IF responses = <<>> \/ st.raised # "" THEN st
    ELSE RenderItems(Tail(responses), RenderItem(Head(responses), st))

-----------------------------------------------------------------------------
\* json.dumps(obj, indent=..., sort_keys=...)

\* A dict keeps its keys in insertion order; `order` lists the keys in the
\* order they were inserted into the records of a document.
Reverse(s) == [i \in 1..Len(s) |-> s[Len(s) + 1 - i]]

\* The escapes of the JSON encoder for the characters of the model
EscapeChar(c) ==
    CASE c = "\"" -> <<"\\", "\"">>
      [] c = "\\" -> <<"\\", "\\">>
      [] c = "\n" -> <<"\\", "n">>
      [] c = "\r" -> <<"\\", "r">>
      [] c = "\t" -> <<"\\", "t">>
      [] c = "\f" -> <<"\\", "f">>
      [] OTHER -> <<c>>

RECURSIVE Escape(_)
Escape(s) == IF s = <<>> THEN <<>> ELSE EscapeChar(Head(s)) \o Escape(Tail(s))

Quoted(s) == <<"\"">> \o Escape(s) \o <<"\"">>

RECURSIVE Spaces(_)
Spaces(n) == IF n <= 0 THEN <<>> ELSE <<" ">> \o Spaces(n - 1)

\* indent < 0 stands for indent=None: no newlines, and ", " between items
NewlineIndent(indent, level) ==
    IF indent < 0 THEN <<>> ELSE <<"\n">> \o Spaces(indent * level)
ItemSeparator(indent) == IF indent < 0 THEN <<",", " ">> ELSE <<",">>

RECURSIVE Dumps(_, _, _, _, _)
RECURSIVE DumpsItems(_, _, _, _, _)
RECURSIVE DumpsMembers(_, _, _, _, _, _)

\* The items of a non-empty list, each on its line when indent is given
DumpsItems(items, indent, level, sort_keys, order) ==
    NewlineIndent(indent, level) \o Dumps(Head(items), indent, level, sort_keys, order)
      \o (IF Tail(items) = <<>> THEN <<>>
          ELSE ItemSeparator(indent)
                 \o DumpsItems(Tail(items), indent, level, sort_keys, order))

\* The members of a non-empty dict, for its keys in the order `keys`
DumpsMembers(d, keys, indent, level, sort_keys, order) ==
    NewlineIndent(indent, level) \o Quoted(KeyChars(Head(keys))) \o <<":", " ">>
      \o Dumps(d[Head(keys)], indent, level, sort_keys, order)
      \o (IF Tail(keys) = <<>> THEN <<>>
          ELSE ItemSeparator(indent)
                 \o DumpsMembers(d, Tail(keys), indent, level, sort_keys, order))

Dumps(v, indent, level, sort_keys, order) ==
    IF IsStr(v) THEN Quoted(v.str)
    ELSE IF IsInt(v) THEN IntToStr(v.int)
    ELSE IF DOMAIN v = {"bool"}
    THEN (IF v.bool THEN <<"t", "r", "u", "e">> ELSE <<"f", "a", "l", "s", "e">>)
    ELSE IF DOMAIN v = {"null"} THEN <<"n", "u", "l", "l">>
    ELSE IF IsList(v)
    THEN IF v.list = <<>> THEN <<"[", "]">>
         ELSE <<"[">> \o DumpsItems(v.list, indent, level + 1, sort_keys, order)
                \o NewlineIndent(indent, level) \o <<"]">>
    ELSE IF DOMAIN v = {} THEN <<"{", "}">>
    ELSE <<"{">>
           \o DumpsMembers(v, KeysIn(v, IF sort_keys THEN AllKeys ELSE order),
                           indent, level + 1, sort_keys, order)
           \o NewlineIndent(indent, level) \o <<"}">>

\* dumps with the keys as they are, whatever sort_keys says
dumps_Unsorted(obj, indent, sort_keys, order) == Dumps(obj, indent, 0, FALSE, order)

\* json.dumps(obj, indent=indent, sort_keys=sort_keys)
dumps(obj, indent, sort_keys, order) == Dumps(obj, indent, 0, sort_keys, order)

-----------------------------------------------------------------------------
\* Request.__init__ as a whole

\* IsCanceled reading a key the record does not carry
IsCanceled_WrongKey(requestDict) ==
    Get(requestDict, "canceled", JBool(FALSE)) = JBool(TRUE)

\* self.requestDict.get('isCanceled', False) is True
IsCanceled(requestDict) == Get(requestDict, "isCanceled", JBool(FALSE)) = JBool(TRUE)

\* IsEmptyRequest comparing with a blank instead of the empty string
IsEmptyRequest_Blank(request) == request = <<" ">>

\* self.request == ''
IsEmptyRequest(request) == request = <<>>

\* The values that the JSON texts of the model are serializations of, each
\* with the order of its keys in the text: records, session documents and
\* values that are no record.
PlainRecord == [message |-> [text |-> JStr(<<"H", "i">>)],
                response |-> JList(<<[value |-> JStr(<<"A">>)]>>)]
NoResponseRecord == [message |-> [text |-> JStr(<<"H", "i">>)], response |-> JList(<<>>)]
CanceledRecord == [isCanceled |-> JBool(TRUE), message |-> [text |-> JStr(<<"H", "i">>)],
                   response |-> JList(<<[value |-> JStr(<<"A">>)]>>)]
EmptyPromptRecord == [message |-> [text |-> JStr(<<>>)],
                      response |-> JList(<<[value |-> JStr(<<"A">>)]>>)]
NonRecords == { JList(<<>>), JInt(7), JNull, JStr(<<"s">>), JList(<<JInt(7)>>) }
TextRecords == { PlainRecord, NoResponseRecord, CanceledRecord, EmptyPromptRecord }
\* Records with items of the other kinds: a marker, a fence, a reference, file
\* edits with a region that parses and with one that does not, an unknown kind
MarkedRecord ==
    [message |-> [text |-> JStr(<<"Q", "?", "\n">>)],
     response |-> JList(<<[value |-> JStr(<<"A", "\"", "\\">>)],
                          [kind |-> JStr(K_toolInvocation), presentation |-> JStr(K_hidden)],
                          [value |-> JStr(MD_BLOCK_QUOTE_BOOKEND)],
                          [kind |-> JStr(K_inlineReference),
                           inlineReference |-> [path |-> JStr(<<"/", "p">>)]],
                          [kind |-> JStr(<<"n", "e", "w">>)]>>)]
EditedRecord(region) ==
    [message |-> [text |-> JStr(<<"H", "i">>)],
     response |-> JList(<<[kind |-> JStr(K_textEditGroup),
                           uri |-> [fsPath |-> JStr(<<"f", ".", "p", "y">>)],
                           edits |-> JList(<<JList(<<region>>)>>)],
                          [value |-> JStr(<<"A">>)]>>)]
RichRecords ==
    { MarkedRecord,
      EditedRecord([text |-> JStr(<<"x", "y">>),
                    range |-> [startLineNumber |-> JInt(3), endLineNumber |-> JInt(12)]]),
      EditedRecord([text |-> JStr(<<"x">>)]) }
DatedDocument == [creationDate |-> JInt(1500), lastMessageDate |-> JInt(2000),
                  requests |-> JList(<<PlainRecord>>)]
TextDocuments ==
    { [requests |-> JList(<<r>>)] : r \in TextRecords }
    \cup { [requests |-> JList(<<NoResponseRecord, PlainRecord>>)], EmptyDict,
           DatedDocument, [lastMessageDate |-> JStr(<<"n", "o">>)] }
Deserialized ==
    { [value |-> v, order |-> o] :
        v \in NonRecords \cup TextRecords \cup RichRecords,
        o \in {AllKeys, Reverse(AllKeys)} }
    \cup { [value |-> v, order |-> o] :
             v \in TextDocuments, o \in {AllKeys, Reverse(AllKeys)} }

\* The JSON text of a value whose keys are in the order `order`
TextOf(v, order) == JStr(dumps(v, 0 - 1, FALSE, order))

\* Texts that are not JSON
NotJson == { JStr(<<"n", "o">>), JStr(<<"{">>), JStr(<<>>) }

\* json.loads(s): the value the text is the serialization of and the order of
\* its keys, or JSONDecodeError (a ValueError) for a text that is not JSON.
loads(s) ==
    LET parsed == { d \in Deserialized : TextOf(d.value, d.order) = JStr(s) }
    IN  IF parsed = {}
        THEN [raised |-> "JSONDecodeError", value |-> JNull, order |-> <<>>]
        ELSE LET d == CHOOSE d \in parsed : TRUE
             IN  [raised |-> "", value |-> d.value, order |-> d.order]

\* Lines 55-60: the record __init__ works on. A str is deserialized, a dict is
\* taken as it is (the caller's object, with its keys in the order `order`),
\* anything else is refused.
Load(requestInput, order) ==
    IF IsStr(requestInput)
    THEN LET l == loads(requestInput.str)
         IN  [raised |-> l.raised, requestDict |-> l.value, order |-> l.order]
    ELSE IF IsDict(requestInput)
    THEN [raised |-> "", requestDict |-> requestInput, order |-> order]
    ELSE [raised |-> "ValueError", requestDict |-> EmptyDict, order |-> order]

\* What lines 62-73 give: the exception raised ("" for none), the fields
\* assigned so far, the list the loop iterates, and the record afterwards
Decoded(raised, request, rawRequest, rawResponse, responses, requestDict) ==
    [raised |-> raised, request |-> request, rawRequest |-> rawRequest,
     rawResponse |-> rawResponse, responses |-> responses, requestDict |-> requestDict]

\* Line 65: the prompt as the record holds it, of whatever type
Prompt(requestDict) ==
    Get(Get(requestDict, "message", EmptyDict), "text", JStr(<<>>))

\* Line 70
ResponseList(requestDict) == Get(requestDict, "response", JList(<<>>))

\* Responses dumping the response list after the placeholder is appended
Responses_DumpAfterAppend(requestDict, order, request, rawRequest) ==
    IF ~HasLen(ResponseList(requestDict))
    THEN Decoded("TypeError", request, rawRequest,
                 dumps(ResponseList(requestDict), 2, FALSE, order), <<>>, requestDict)
    ELSE IF PyLen(ResponseList(requestDict)) > 0
    THEN Decoded("", request, rawRequest,
                 dumps(ResponseList(requestDict), 2, FALSE, order),
                 Iter(ResponseList(requestDict)), requestDict)
    ELSE IF ~IsList(ResponseList(requestDict))
    THEN Decoded("AttributeError", request, rawRequest,
                 dumps(ResponseList(requestDict), 2, FALSE, order), <<>>, requestDict)
    ELSE Decoded("", request, rawRequest,
                 dumps(JList(<<JStr(NO_RESPONSE)>>), 2, FALSE, order),
                 <<JStr(NO_RESPONSE)>>,
                 IF "response" \in DOMAIN requestDict
                 THEN [requestDict EXCEPT !["response"] = JList(<<JStr(NO_RESPONSE)>>)]
                 ELSE requestDict)

\* Lines 70-73: the response list is dumped, measured (only a str, a list and
\* a dict have a len) and, when empty, given the placeholder (only a list has
\* append, and it writes into the record's own list when the record holds
\* one). `responses` is what the loop iterates.
Responses(requestDict, order, request, rawRequest) ==
    IF ~HasLen(ResponseList(requestDict))
    THEN Decoded("TypeError", request, rawRequest,
                 dumps(ResponseList(requestDict), 2, FALSE, order), <<>>, requestDict)
    ELSE IF PyLen(ResponseList(requestDict)) > 0
    THEN Decoded("", request, rawRequest,
                 dumps(ResponseList(requestDict), 2, FALSE, order),
                 Iter(ResponseList(requestDict)), requestDict)
    ELSE IF ~IsList(ResponseList(requestDict))
    THEN Decoded("AttributeError", request, rawRequest,
                 dumps(ResponseList(requestDict), 2, FALSE, order), <<>>, requestDict)
    ELSE Decoded("", request, rawRequest,
                 dumps(ResponseList(requestDict), 2, FALSE, order),
                 <<JStr(NO_RESPONSE)>>,
                 IF "response" \in DOMAIN requestDict
                 THEN [requestDict EXCEPT !["response"] = JList(<<JStr(NO_RESPONSE)>>)]
                 ELSE requestDict)

\* Lines 65-73 for the prompt `text`: request holds the characters of a str,
\* and the value itself when the prompt is no str
Prompted(requestDict, order, text) ==
    IF IsStr(text) /\ IsEmptyRequest(text.str)
    THEN Decoded("ChatRequestEmptyRequest", text.str, dumps(text, 2, FALSE, order),
                 <<>>, <<>>, requestDict)
    ELSE Responses(requestDict, order, IF IsStr(text) THEN text.str ELSE text,
                   dumps(text, 2, FALSE, order))

\* Lines 62-73: the canceled and empty-prompt checks, the raw forms and the
\* response list. A value that is no dict has no get(), be it the record or
\* its message.
Decode(requestDict, order) ==
    IF ~IsDict(requestDict)
    THEN Decoded("AttributeError", <<>>, <<>>, <<>>, <<>>, requestDict)
    ELSE IF IsCanceled(requestDict)
    THEN Decoded("ChatRequestCanceled", <<>>, <<>>, <<>>, <<>>, requestDict)
    ELSE IF ~IsDict(Get(requestDict, "message", EmptyDict))
    THEN Decoded("AttributeError", <<>>, <<>>, <<>>, <<>>, requestDict)
    ELSE Prompted(requestDict, order, Prompt(requestDict))

\* The Request object before __init__ assigns anything (lines 48-53).
NewRequest == [request |-> <<>>, response |-> <<>>, size |-> 0,
               rawRequest |-> <<>>, rawResponse |-> <<>>]

\* The state of the rendering loop before its first iteration (lines 75-76).
LoopStart == [responseValue |-> <<>>, hiddenPresentation |-> FALSE,
              Log |-> <<>>, raised |-> ""]

\* Size without the response
Size_RequestOnly(request, response) == Len(request)

\* self.size = len(self.request) + len(self.response)
Size(request, response) == Len(request) + Len(response)

\* Line 144 for the prompt as the record holds it: a str is measured by its
\* characters, a list and a dict by their items
SizeOf(prompt, request, response) ==
    IF IsStr(prompt) THEN Size(request, response) ELSE PyLen(prompt) + Len(response)

\* Lines 142-144, or the raise of the loop: what __init__ ends with after the
\* loop left the state st. `after` is the caller's input afterwards. A prompt
\* that has no len is a TypeError on line 144.
RequestRendered(d, after, header, st) ==
    IF st.raised # ""
    THEN [raised |-> st.raised, self |-> header, requestInput |-> after, Log |-> st.Log]
    ELSE IF ~HasLen(Prompt(d.requestDict))
    THEN [raised |-> "TypeError", self |-> [header EXCEPT !.response = st.responseValue],
          requestInput |-> after, Log |-> st.Log]
    ELSE [raised |-> "",
          self |-> [header EXCEPT
                      !.response = st.responseValue,
                      !.size = SizeOf(Prompt(d.requestDict), d.request, st.responseValue)],
          requestInput |-> after, Log |-> st.Log]

\* Lines 62-144 for what Decode gave
RequestDecoded(d, after, header) ==
    IF d.raised # ""
    THEN [raised |-> d.raised, self |-> header, requestInput |-> after, Log |-> <<>>]
    ELSE RequestRendered(d, after, header, RenderItems(d.responses, LoopStart))

\* The fields that lines 65-71 assign
Header(d) ==
    [NewRequest EXCEPT !.request = d.request,
                       !.rawRequest = d.rawRequest,
                       !.rawResponse = d.rawResponse]

\* Lines 62-144 for the record that Load gave: a dict given by the caller is
\* worked on in place, a str is left as it is
RequestLoaded(requestInput, d) ==
    RequestDecoded(d, IF IsDict(requestInput) THEN d.requestDict ELSE requestInput,
                   Header(d))

\* Lines 55-144 for what Load gave
RequestFrom(requestInput, l) ==
    IF l.raised # ""
    THEN [raised |-> l.raised, self |-> NewRequest,
          requestInput |-> requestInput, Log |-> <<>>]
    ELSE RequestLoaded(requestInput, Decode(l.requestDict, l.order))

\* Request(requestInput) for an input whose keys are in the order `order`: the
\* exception raised ("" for none), the object built, the caller's input
\* afterwards and the diagnostics emitted.
RequestInitIn(requestInput, order) ==
    RequestFrom(requestInput, Load(requestInput, order))

\* Request(requestInput) for an input whose keys are in sorted order
RequestInit(requestInput) == RequestInitIn(requestInput, AllKeys)

-----------------------------------------------------------------------------
\* The timestamps of a session (Chat.__init__, lines 36-37 and 58-70)

RECURSIVE Gcd(_, _)
Gcd(a, b) == IF b = 0 THEN a ELSE Gcd(b, a % b)

Abs(n) == IF n < 0 THEN 0 - n ELSE n

\* A float is held as the fraction num/den in lowest terms, den > 0
Float(n, d) ==
    LET g == Gcd(Abs(n), d)
    IN  [num |-> n \div g, den |-> d \div g]

\* f / k for a float f and a positive k
FloatDiv(f, k) == Float(f.num, f.den * k)

IsDigits(s) ==
    s # <<>> /\ \A i \in 1..Len(s) : \E d \in 1..10 : DigitChar[d] = s[i]

RECURSIVE DigitsValue(_)
DigitsValue(s) ==
    IF s = <<>> THEN 0
    ELSE DigitsValue(SubSeq(s, 1, Len(s) - 1)) * 10 + Ord(s[Len(s)])

\* float(v): an int and a bool convert, a str converts when, stripped, it is
\* an optional sign and decimal digits (the numeric texts of the model) and is
\* a ValueError otherwise; None, a list and a dict are a TypeError.
PyFloat(v) ==
    IF IsInt(v) THEN [raised |-> "", value |-> Float(v.int, 1)]
    ELSE IF DOMAIN v = {"bool"}
    THEN [raised |-> "", value |-> Float(IF v.bool THEN 1 ELSE 0, 1)]
    ELSE IF IsStr(v)
    THEN LET t == Strip(v.str)
             signed == t # <<>> /\ Head(t) \in {"-", "+"}
             digits == IF signed THEN Tail(t) ELSE t
         IN  IF IsDigits(digits)
             THEN [raised |-> "",
                   value |-> Float(IF signed /\ Head(t) = "-"
                                   THEN 0 - DigitsValue(digits)
                                   ELSE DigitsValue(digits), 1)]
             ELSE [raised |-> "ValueError", value |-> Float(0, 1)]
    ELSE [raised |-> "TypeError", value |-> Float(0, 1)]

\* Lines 36-37: both timestamps start as the lastUpdate argument
NewDates(suppliedLastUpdate) ==
    [createDate |-> suppliedLastUpdate, lastUpdate |-> suppliedLastUpdate]

\* Lines 59-64 and 65-70: float(sessionDict[key]) / 1000. when the key is in
\* the document and float() takes its value, the default otherwise
Timestamp(document, key, default) ==
    IF key \notin DOMAIN document THEN default
    ELSE IF PyFloat(document[key]).raised # "" THEN default
    ELSE FloatDiv(PyFloat(document[key]).value, 1000)

\* Lines 36-37 and 58-70. A document that is no dict leaves the defaults: the
\* keys are not found in it, or the lookup raises (lines 59, 61).
ChatDates(document, suppliedLastUpdate) ==
    IF ~IsDict(document) THEN NewDates(suppliedLastUpdate)
    ELSE [createDate |-> Timestamp(document, "creationDate", suppliedLastUpdate),
          lastUpdate |-> Timestamp(document, "lastMessageDate", suppliedLastUpdate)]

-----------------------------------------------------------------------------
\* The inputs: raw records, response items, edit regions

\* f restricted to the keys in ks: a dict in which the other keys are absent
Only(f, ks) == [k \in ks |-> f[k]]

\* The sequences over S of length at most n
SeqUpTo(S, n) == UNION { [1..k -> S] : k \in 0..n }

TextA == [value |-> JStr(<<"A">>)]
TextB == [value |-> JStr(<<"b", " ">>)]
Fence == [value |-> JStr(MD_BLOCK_QUOTE_BOOKEND)]
PaddedFence == [value |-> JStr(<<" ">> \o MD_BLOCK_QUOTE_BOOKEND \o <<"\n">>)]
OpeningFence == [value |-> JStr(MD_BLOCK_QUOTE_BOOKEND \o <<"p", "y", "\n">>)]
HiddenMarker == [kind |-> JStr(K_toolInvocation), presentation |-> JStr(K_hidden)]
PlainMarker == [kind |-> JStr(K_toolInvocation)]

FilePy == JStr(<<"f", ".", "p", "y">>)
Ref(inlineReference) ==
    [kind |-> JStr(K_inlineReference), inlineReference |-> inlineReference]
RefUnknown == Ref([path |-> JStr(<<"/", "p">>)])
RefFile == Ref([fsPath |-> FilePy])
RefName == Ref([name |-> JStr(<<"f", "n">>)])
RefBoth == Ref([fsPath |-> FilePy, name |-> JStr(<<"f", "n">>)])
RefEmpty == Ref(EmptyDict)
RefScheme == Ref([path |-> JStr(<<"/", "p">>), scheme |-> JStr(<<"f", "i", "l", "e">>)])

Range(line_start, line_end) ==
    [startLineNumber |-> line_start, endLineNumber |-> line_end]
Region(text, line_start, line_end) ==
    [text |-> JStr(text), range |-> Range(line_start, line_end)]

\* Well-formed edit regions: text empty, of one character and of several;
\* one line, several lines, and an end before the start.
GoodRegions ==
    { Region(<<"x">>, JInt(1), JInt(1)),
      Region(<<"x", "y">>, JInt(3), JInt(12)),
      Region(<<>>, JInt(3), JInt(4)),
      Region(<<>>, JInt(5), JInt(5)),
      Region(<<"x">>, JInt(7), JInt(2)) }

\* Edit regions that are no record, or lack a field
BrokenRegions ==
    { JStr(<<"n", "o">>),
      [range |-> Range(JInt(1), JInt(1))],
      [text |-> JStr(<<"x">>)],
      [text |-> JStr(<<"x">>), range |-> [endLineNumber |-> JInt(1)]],
      [text |-> JStr(<<>>), range |-> [startLineNumber |-> JInt(1)]],
      [text |-> JStr(<<"x">>), range |-> JStr(<<"n", "o">>)] }

\* Edit regions whose line numbers are not integers
NonIntRegions ==
    { Region(<<"x">>, JStr(<<"2">>), JStr(<<"1", "0">>)),
      Region(<<"x">>, JStr(<<"1">>), JStr(<<"2">>)),
      Region(<<"x">>, JInt(1), JStr(<<"2">>)),
      Region(<<"x">>, JNull, JNull) }

Regions == GoodRegions \cup BrokenRegions \cup NonIntRegions

EditGroup(uri, edits) ==
    [kind |-> JStr(K_textEditGroup), uri |-> uri, edits |-> JList(edits)]

\* The edit groups a sequence of regions comes in: all regions in one group,
\* each in a group of its own, or the first apart from the others with an
\* empty group between them
Groupings == {"one", "each", "head"}
Grouped(regs, how) ==
    IF how = "one" \/ regs = <<>> THEN <<JList(regs)>>
    ELSE IF how = "each" THEN [i \in 1..Len(regs) |-> JList(<<regs[i]>>)]
    ELSE <<JList(<<Head(regs)>>), JList(<<>>), JList(Tail(regs))>>

EditGood == EditGroup([fsPath |-> FilePy], <<JList(<<Region(<<"x">>, JInt(1), JInt(2))>>)>>)
EditBad == EditGroup([fsPath |-> FilePy], <<JList(<<[text |-> JStr(<<"x">>)]>>)>>)

\* The items every combination of which is tried
CoreItems ==
    { TextA, TextB, Fence, PaddedFence, HiddenMarker, PlainMarker,
      RefUnknown, EditGood, EditBad }

\* The other shapes of item, each tried alone and between other items
OtherItems ==
    { OpeningFence, RefFile, RefName, RefBoth, RefEmpty, RefScheme,
      JStr(<<"s">>), JNull, EmptyDict,
      [kind |-> JStr(<<>>)],
      [kind |-> JStr(<<"n", "e", "w">>), value |-> JStr(<<"A">>)],
      [kind |-> JStr(K_toolInvocation), presentation |-> JStr(K_hidden),
       value |-> JStr(<<"A">>)],
      [kind |-> JStr(K_textEditGroup)],
      [kind |-> JStr(K_textEditGroup), uri |-> EmptyDict,
       edits |-> JList(<<JList(<<Region(<<"x">>, JInt(1), JInt(2))>>)>>)],
      [kind |-> JStr(K_textEditGroup), uri |-> [fsPath |-> FilePy]],
      EditGroup([path |-> JStr(<<"/", "p">>)],
                <<JList(<<Region(<<"x">>, JInt(1), JInt(2))>>)>>),
      [kind |-> JStr(K_textEditGroup), uri |-> [fsPath |-> FilePy],
       edits |-> JList(<<>>), value |-> JStr(<<"A">>)],
      [kind |-> JStr(K_inlineReference), inlineReference |-> [name |-> JStr(<<"f", "n">>)],
       value |-> JStr(<<"A">>)],
      [kind |-> JStr(<<"n", "e", "w">>)],
      [kind |-> JStr(<<"o", "d", "d">>), presentation |-> JStr(K_hidden)] }
    \cup { [kind |-> JStr(k)] : k \in SKIPPED_RESPONSE_KINDS }
    \cup { [kind |-> JStr(k), value |-> JStr(<<"A">>)] : k \in SKIPPED_RESPONSE_KINDS }

\* An item alone, between two texts, and after a hidden marker
Around(resp) == { <<resp>>, <<TextA, resp, TextB>>, <<HiddenMarker, resp, Fence>> }

Hi == [text |-> JStr(<<"H", "i">>)]

Record(isCanceled, message, response) ==
    [isCanceled |-> isCanceled, message |-> message, response |-> response]

WithResponse(rs) == [message |-> Hi, response |-> JList(rs)]

\* Records with a prompt: every list of core items, and every other item in
\* its surroundings
RenderInputs ==
    { WithResponse(rs) :
        rs \in SeqUpTo(CoreItems, MaxItems)
               \cup UNION { Around(resp) : resp \in OtherItems } }

\* A record with a prompt and a textEditGroup item between two texts
EditInput(regs, how) ==
    WithResponse(<<TextA, EditGroup([fsPath |-> FilePy], Grouped(regs, how)), TextB>>)

Messages ==
    { EmptyDict, [text |-> JStr(<<>>)], Hi, [text |-> JStr(<<"Q", "?", "\n">>)] }

\* Records in which isCanceled, message and response are each absent or
\* present, with every value of the flag and of the prompt
HeaderInputs ==
    { Only(Record(isCanceled, message, JList(rs)), ks) :
        isCanceled \in {JBool(TRUE), JBool(FALSE)},
        message \in Messages,
        rs \in SeqUpTo(CoreItems, 1),
        ks \in SUBSET {"isCanceled", "message", "response"} }

\* Inputs that are no record: the texts of records and of other values, texts
\* that are not JSON, and values that are neither a record nor a text
TextInputs ==
    { TextOf(v, o) : v \in TextRecords \cup NonRecords \cup RichRecords,
                     o \in {AllKeys, Reverse(AllKeys)} }
    \cup NotJson \cup { JInt(123), JNull, JList(<<>>), JBool(TRUE) }

\* The records a session document is made of
Prompts == { [text |-> JStr(<<>>)], Hi, [text |-> JStr(<<"Q", "?", "\n">>)] }
ChatResponses == { <<>>, <<TextA>>, <<EditBad>>, <<TextB, RefUnknown>> }
ChatRecords ==
    { [message |-> message, response |-> JList(rs)] :
        message \in Prompts, rs \in ChatResponses }
    \cup { [isCanceled |-> JBool(TRUE), message |-> message, response |-> JList(rs)] :
             message \in Prompts, rs \in ChatResponses }
    \cup { EmptyDict, [message |-> Hi],
           [message |-> EmptyDict, response |-> JList(<<TextA>>)] }

\* Session documents: with and without a requests list
SessionInputs ==
    { [requests |-> JList(reqs)] : reqs \in SeqUpTo(ChatRecords, MaxRequests) }
    \cup { EmptyDict }

-----------------------------------------------------------------------------
\* The state

VARIABLES
    requestInput,        \* Request.__init__: the caller's record
    self,                \* the Request object: request, response, size
    responses,           \* the list the loop iterates
    respIndex,           \* how many of its items the loop has consumed
    responseValue,       \* the text rendered so far
    hiddenPresentation,  \* the suppression flag
    pc,                  \* "idle", "decode", "loop", "done", "raised"
    raised,              \* the exception Request.__init__ ended with, or ""
    earlier,             \* the records Requests were constructed from before
    sessionInput,        \* Chat.__init__: the caller's argument (record, text or other)
    keyOrder,            \* the order of the keys in the caller's records
    id,                  \* the id argument
    sessionDict,         \* the session document __init__ works on
    chat,                \* the Chat object: requests, size
    chatId,              \* the Chat object: id
    reqIndex,            \* how many raw exchanges the loop has consumed
    chatPc,              \* "idle", "begin", "loop", "done", "raised"
    chatRaised,          \* the exception Chat.__init__ ended with, or ""
    built,               \* the ids of the sessions the caller built before
    lastUpdate,          \* the lastUpdate argument, in seconds
    chatDates,           \* the Chat object: createDate, lastUpdate
    sortPc,              \* Workspaces / Workspace: "idle", "ready", "sorted", "returned"
    sortOwner,           \* "Workspaces" or "Workspace": whose list is sorted
    sortAttribute,       \* self._sortAttribute
    sortReverse,         \* self._sortReverse
    sortList,            \* self.workspaces or self.chats
    sortCalls,           \* the sortBy given to each call of sort(), oldest first
    noteArgs,            \* Vault._note_full_path: its arguments
    noteFile,            \* what it returned
    notePc,              \* "idle", "call", "returned"
    Log                  \* the diagnostics emitted, oldest first

requestVars == <<requestInput, self, responses, respIndex, responseValue,
                 hiddenPresentation, pc, raised, earlier>>
chatVars == <<sessionInput, keyOrder, id, sessionDict, chat, chatId, reqIndex,
              chatPc, chatRaised, built, lastUpdate, chatDates>>
sortVars == <<sortPc, sortOwner, sortAttribute, sortReverse, sortList, sortCalls>>
noteVars == <<noteArgs, noteFile, notePc>>
toolVars == <<sortVars, noteVars>>
vars == <<requestVars, chatVars, toolVars, Log>>

\* The Chat object before __init__ assigns anything (lines 38-39).
NewChat == [requests |-> <<>>, size |-> 0]

RequestIdle ==
    /\ requestInput = EmptyDict
    /\ self = NewRequest
    /\ responses = <<>>
    /\ respIndex = 0
    /\ responseValue = <<>>
    /\ hiddenPresentation = FALSE
    /\ pc = "idle"
    /\ raised = ""
    /\ earlier = <<>>

ChatIdle ==
    /\ sessionInput = EmptyDict
    /\ keyOrder = AllKeys
    /\ id = <<>>
    /\ sessionDict = EmptyDict
    /\ chat = NewChat
    /\ chatId = <<>>
    /\ reqIndex = 0
    /\ chatPc = "idle"
    /\ chatRaised = ""
    /\ built = <<>>
    /\ lastUpdate = Float(0, 1)
    /\ chatDates = NewDates(lastUpdate)

SortIdle ==
    /\ sortPc = "idle"
    /\ sortOwner = "Workspaces"
    /\ sortAttribute = <<>>
    /\ sortReverse = FALSE
    /\ sortList = <<>>
    /\ sortCalls = <<>>

NoteIdle ==
    /\ noteArgs = EmptyDict
    /\ noteFile = JNull
    /\ notePc = "idle"

ToolsIdle == SortIdle /\ NoteIdle

-----------------------------------------------------------------------------
\* Request.__init__, one step at a time

InitRequest ==
    /\ \/ requestInput \in RenderInputs
       \/ requestInput \in HeaderInputs
       \/ \E regs \in SeqUpTo(Regions, MaxRegions), how \in Groupings :
            requestInput = EditInput(regs, how)
       \/ requestInput \in TextInputs
    /\ self = NewRequest
    /\ responses = <<>>
    /\ respIndex = 0
    /\ responseValue = <<>>
    /\ hiddenPresentation = FALSE
    /\ pc = "decode"
    /\ raised = ""
    /\ earlier = <<>>
    /\ ChatIdle
    /\ ToolsIdle
    /\ Log = <<>>

\* RequestDecoded_Step without line 76: the flag is what it was
RequestDecoded_Step_FlagKept(d) ==
    /\ requestInput' = IF IsDict(requestInput) THEN d.requestDict ELSE requestInput
    /\ self' = [self EXCEPT !.request = d.request,
                            !.rawRequest = d.rawRequest,
                            !.rawResponse = d.rawResponse]
    /\ responses' = d.responses
    /\ respIndex' = IF d.raised # "" THEN respIndex ELSE 0
    /\ responseValue' = IF d.raised # "" THEN responseValue ELSE LoopStart.responseValue
    /\ hiddenPresentation' = hiddenPresentation
    /\ raised' = d.raised
    /\ pc' = IF d.raised # "" THEN "raised" ELSE "loop"

\* Lines 62-76 for the record that Load gave
RequestDecoded_Step(d) ==
    /\ requestInput' = IF IsDict(requestInput) THEN d.requestDict ELSE requestInput
    /\ self' = [self EXCEPT !.request = d.request,
                            !.rawRequest = d.rawRequest,
                            !.rawResponse = d.rawResponse]
    /\ responses' = d.responses
    /\ respIndex' = IF d.raised # "" THEN respIndex ELSE 0
    /\ responseValue' = IF d.raised # "" THEN responseValue ELSE LoopStart.responseValue
    /\ hiddenPresentation' =
          IF d.raised # "" THEN hiddenPresentation ELSE LoopStart.hiddenPresentation
    /\ raised' = d.raised
    /\ pc' = IF d.raised # "" THEN "raised" ELSE "loop"

\* Lines 55-76 for what Load gave
RequestLoaded_Step(l) ==
    IF l.raised # ""
    THEN /\ raised' = l.raised
         /\ pc' = "raised"
         /\ UNCHANGED <<requestInput, self, responses, respIndex, responseValue,
                         hiddenPresentation>>
    ELSE RequestDecoded_Step(Decode(l.requestDict, l.order))

\* Lines 55-76
RequestDecode ==
    /\ pc = "decode"
    /\ RequestLoaded_Step(Load(requestInput, keyOrder))
    /\ UNCHANGED <<earlier, chatVars, toolVars, Log>>

\* Lines 77-140: one iteration of the loop
RequestRenderItem ==
    /\ pc = "loop"
    /\ respIndex < Len(responses)
    /\ LET st == RenderItem(responses[respIndex + 1],
                            [responseValue |-> responseValue,
                             hiddenPresentation |-> hiddenPresentation,
                             Log |-> Log, raised |-> ""])
       IN  /\ responseValue' = st.responseValue
           /\ hiddenPresentation' = st.hiddenPresentation
           /\ Log' = st.Log
           /\ raised' = st.raised
           /\ pc' = IF st.raised # "" THEN "raised" ELSE "loop"
    /\ respIndex' = respIndex + 1
    /\ UNCHANGED <<requestInput, self, responses, earlier, chatVars, toolVars>>

\* Lines 142-144 for the prompt as the record holds it
RequestFinish_Step(prompt) ==
    IF ~HasLen(prompt)
    THEN /\ self' = [self EXCEPT !.response = responseValue]
         /\ raised' = "TypeError"
         /\ pc' = "raised"
    ELSE /\ self' = [self EXCEPT !.response = responseValue,
                                 !.size = SizeOf(prompt, self.request, responseValue)]
         /\ raised' = raised
         /\ pc' = "done"

\* Lines 142-144
RequestFinish ==
    /\ pc = "loop"
    /\ respIndex = Len(responses)
    /\ RequestFinish_Step(Prompt(Load(requestInput, keyOrder).requestDict))
    /\ UNCHANGED <<requestInput, responses, respIndex, responseValue,
                   hiddenPresentation, earlier, chatVars, toolVars, Log>>

NextRequest == RequestDecode \/ RequestRenderItem \/ RequestFinish

SpecRequest == InitRequest /\ [][NextRequest]_vars

-----------------------------------------------------------------------------
\* Requests constructed one after another, as the loop of Chat.__init__ does

\* The records: every list of a text, a fence and a hidden marker first, and
\* then records with and without a marker
FirstRecords ==
    { WithResponse(rs) : rs \in SeqUpTo({TextA, Fence, HiddenMarker}, MaxItems) }
LaterRecords ==
    { WithResponse(<<TextA, TextB>>), WithResponse(<<TextA, Fence, TextB>>),
      WithResponse(<<TextB, HiddenMarker, TextA>>), WithResponse(<<>>),
      CanceledRecord }

InitRecords ==
    /\ requestInput \in FirstRecords
    /\ self = NewRequest
    /\ responses = <<>>
    /\ respIndex = 0
    /\ responseValue = <<>>
    /\ hiddenPresentation = FALSE
    /\ pc = "decode"
    /\ raised = ""
    /\ earlier = <<>>
    /\ ChatIdle
    /\ ToolsIdle
    /\ Log = <<>>

\* The caller constructs the next Request: a new object (lines 48-53); the
\* locals of the call before are gone, and the model leaves in them what
\* they held
RequestAgain ==
    /\ pc \in {"done", "raised"}
    /\ Len(earlier) + 1 < MaxBuilds
    /\ earlier' = Append(earlier, requestInput)
    /\ requestInput' \in LaterRecords
    /\ self' = NewRequest
    /\ pc' = "decode"
    /\ raised' = ""
    /\ UNCHANGED <<responses, respIndex, responseValue, hiddenPresentation,
                   chatVars, toolVars, Log>>

NextRecords == RequestDecode \/ RequestRenderItem \/ RequestFinish \/ RequestAgain

SpecRecords == InitRecords /\ [][NextRecords]_vars

-----------------------------------------------------------------------------
\* Request.__init__ for records whose fields are absent or wrongly typed

\* Values of each type, none of them what a field is meant to hold
WrongValues ==
    { JInt(5), JInt(0), JNull, JBool(TRUE), JStr(<<"x">>), JStr(<<>>),
      JList(<<>>), JList(<<JInt(1)>>), EmptyDict, [name |-> JStr(<<"x">>)] }

\* Response items with a field absent or holding a wrong value
WrongItems ==
    { [value |-> w] : w \in WrongValues }
    \cup { [kind |-> JStr(K_inlineReference)] }
    \cup { [kind |-> JStr(K_inlineReference), inlineReference |-> w] : w \in WrongValues }
    \cup { [kind |-> JStr(K_inlineReference), inlineReference |-> [fsPath |-> w]] :
             w \in {JInt(5), JNull} }
    \cup { [kind |-> JStr(K_textEditGroup), uri |-> w,
            edits |-> JList(<<JList(<<Region(<<"x">>, JInt(1), JInt(2))>>)>>)] :
             w \in WrongValues \cup {[fsPath |-> JInt(5)], [fsPath |-> JNull]} }
    \cup { [kind |-> JStr(K_textEditGroup), uri |-> [fsPath |-> FilePy], edits |-> w] :
             w \in WrongValues }
    \cup { EditGroup([fsPath |-> FilePy], <<w>>) : w \in WrongValues }
    \cup { EditGroup([fsPath |-> FilePy], <<JList(<<Region(<<"x">>, JInt(1), JInt(2))>>), w>>) :
             w \in WrongValues }
    \cup { EditGroup([fsPath |-> FilePy], <<JList(<<[text |-> JStr(<<"x">>)]>>), w>>) :
             w \in WrongValues }
    \cup { EditGroup([fsPath |-> FilePy],
                      <<JList(<<[text |-> w, range |-> Range(JInt(1), JInt(2))]>>)>>) :
             w \in WrongValues }
    \cup { EditGroup([fsPath |-> FilePy], <<JList(<<[text |-> JStr(<<"x">>), range |-> w]>>)>>) :
             w \in WrongValues }
    \cup { [kind |-> w] : w \in WrongValues }
    \cup { [kind |-> JStr(K_toolInvocation), presentation |-> w] : w \in WrongValues }

\* Records with a field absent or holding a wrong value: the message, the
\* prompt, the canceled flag, the response list, and an item of the list
\* alone, after a text and after a hidden marker
TypedInputs ==
    { [message |-> w, response |-> JList(<<TextA>>)] : w \in WrongValues }
    \cup { [message |-> [text |-> w], response |-> JList(rs)] :
             w \in WrongValues, rs \in {<<>>, <<TextA>>, <<EditBad>>} }
    \cup { [message |-> [text |-> w]] : w \in WrongValues }
    \cup { [message |-> Hi, response |-> w] : w \in WrongValues }
    \cup { [isCanceled |-> w, message |-> Hi, response |-> JList(<<TextA>>)] :
             w \in WrongValues }
    \cup { WithResponse(rs) : rs \in UNION { Around(resp) : resp \in WrongItems } }

InitTyped ==
    /\ requestInput \in TypedInputs
    /\ self = NewRequest
    /\ responses = <<>>
    /\ respIndex = 0
    /\ responseValue = <<>>
    /\ hiddenPresentation = FALSE
    /\ pc = "decode"
    /\ raised = ""
    /\ earlier = <<>>
    /\ ChatIdle
    /\ ToolsIdle
    /\ Log = <<>>

SpecTyped == InitTyped /\ [][NextRequest]_vars

-----------------------------------------------------------------------------
\* Chat.__init__, one raw exchange at a time

Init ==
    /\ sessionInput \in SessionInputs
    /\ keyOrder = AllKeys
    /\ id = <<>>
    /\ sessionDict = EmptyDict
    /\ chat = NewChat
    /\ chatId = <<>>
    /\ reqIndex = 0
    /\ chatPc = "begin"
    /\ chatRaised = ""
    /\ built = <<>>
    /\ lastUpdate = Float(0, 1)
    /\ chatDates = NewDates(lastUpdate)
    /\ RequestIdle
    /\ ToolsIdle
    /\ Log = <<>>

\* Lines 44-50: the document __init__ works on. A str is deserialized, a dict
\* is taken as it is (the caller's object), anything else is refused.
LoadSession(input, order) ==
    IF IsStr(input)
    THEN LET l == loads(input.str)
         IN  [raised |-> l.raised, sessionDict |-> l.value, order |-> l.order]
    ELSE IF IsDict(input)
    THEN [raised |-> "", sessionDict |-> input, order |-> order]
    ELSE [raised |-> "ValueError", sessionDict |-> EmptyDict, order |-> order]

\* hashlib.md5(data).hexdigest(). The digest is not computed: it is a value
\* that stands for the digest of `data`, different for different data.
hexdigest(data) == <<"md5">> \o data

\* SessionId with a derived id whatever id is supplied
SessionId_AlwaysDerived(suppliedId, document, order) ==
    hexdigest(dumps(document, 0 - 1, TRUE, order))

\* Lines 35 and 52-56: the supplied id, or the digest of the document dumped
\* with sorted keys when the supplied id is ''
SessionId(suppliedId, document, order) ==
    IF suppliedId = <<>> THEN hexdigest(dumps(document, 0 - 1, TRUE, order))
    ELSE suppliedId

\* Lines 58-72 for a deserialized document that is no dict: `in` raises
\* TypeError on a value that is no container, and a list or a str has no get().
NoDictError(document) ==
    IF IsDict(document) THEN ""
    ELSE IF IsList(document) \/ IsStr(document) THEN "AttributeError"
    ELSE "TypeError"

\* sessionDict.get('requests', [])
RawRequests(d) == Get(d, "requests", JList(<<>>)).list

ChatLog(level, event) == [level |-> level, event |-> event, arg |-> JNull]

\* What the except clauses of lines 77-82 log
SkipLog(exception) ==
    CASE exception = "ChatRequestEmptyRequest" ->
           <<ChatLog("debug", "chat request is empty")>>
      [] exception = "ChatRequestCanceled" ->
           <<ChatLog("debug", "skipping canceled request")>>
      [] exception = "ChatRequestParseError" ->
           <<ChatLog("info", "skipping unparseable request")>>
      [] OTHER -> <<>>

\* The exceptions of Request.__init__ that lines 77-82 catch
Caught == {"ChatRequestEmptyRequest", "ChatRequestCanceled", "ChatRequestParseError"}

\* Collect without the except clauses' skip: whatever was built is appended
Collect_Always(c, r) ==
    [requests |-> Append(c.requests, r.self), size |-> c.size + r.self.size]

\* Collect counting the response only
Collect_ResponseSize(c, r) ==
    IF r.raised = ""
    THEN [requests |-> Append(c.requests, r.self),
          size |-> c.size + Len(r.self.response)]
    ELSE c

\* Collect putting the new exchange in front
Collect_Prepend(c, r) ==
    IF r.raised = ""
    THEN [requests |-> <<r.self>> \o c.requests, size |-> c.size + r.self.size]
    ELSE c

\* Lines 74-82: what one Request(req) leaves in the Chat object. r is what
\* RequestInit gave: the object is appended and counted when nothing was raised.
Collect(c, r) ==
    IF r.raised = ""
    THEN [requests |-> Append(c.requests, r.self), size |-> c.size + r.self.size]
    ELSE c

\* Lines 52-72 for what LoadSession gave
ChatLoaded(l, error) ==
    /\ sessionDict' = l.sessionDict
    /\ keyOrder' = IF l.raised = "" THEN l.order ELSE keyOrder
    /\ chatId' = IF l.raised # "" THEN id ELSE SessionId(id, l.sessionDict, l.order)
    /\ chatDates' = IF l.raised = "" THEN ChatDates(l.sessionDict, lastUpdate)
                    ELSE NewDates(lastUpdate)
    /\ chatRaised' = error
    /\ chatPc' = IF error # "" THEN "raised" ELSE "loop"

\* The exception of lines 44-72, or ""
BeginError(l) == IF l.raised # "" THEN l.raised ELSE NoDictError(l.sessionDict)

ChatLoad(l) == ChatLoaded(l, BeginError(l))

\* Lines 35-72: the fields' first values, the document, the id, and the list
\* the loop iterates
ChatBegin ==
    /\ chatPc = "begin"
    /\ ChatLoad(LoadSession(sessionInput, keyOrder))
    /\ chat' = NewChat
    /\ UNCHANGED <<sessionInput, id, reqIndex, built, lastUpdate, requestVars, toolVars, Log>>

\* Lines 74-82 for what Request(req) gave. A record of the caller's document
\* is worked on in place; an exception that no except clause names ends
\* __init__.
ChatTake(r, escapes) ==
    /\ sessionDict' =
          [sessionDict EXCEPT !["requests"] =
             JList([@.list EXCEPT ![reqIndex + 1] = r.requestInput])]
    /\ sessionInput' = IF IsDict(sessionInput) THEN sessionDict' ELSE sessionInput
    /\ chat' = Collect(chat, r)
    /\ Log' = Log \o r.Log \o SkipLog(r.raised)
    /\ chatPc' = IF escapes THEN "raised" ELSE "loop"
    /\ chatRaised' = IF escapes THEN r.raised ELSE ""

Escapes(r) == r.raised \notin Caught \cup {""}

ChatTry(r) == ChatTake(r, Escapes(r))

\* Lines 72-82: one iteration of the loop over the raw exchanges
ChatRequest ==
    /\ chatPc = "loop"
    /\ reqIndex < Len(RawRequests(sessionDict))
    /\ ChatTry(RequestInitIn(RawRequests(sessionDict)[reqIndex + 1], keyOrder))
    /\ reqIndex' = reqIndex + 1
    /\ UNCHANGED <<keyOrder, id, chatId, built, lastUpdate, chatDates, requestVars, toolVars>>

\* The loop ends: the session is constructed
ChatDone ==
    /\ chatPc = "loop"
    /\ reqIndex = Len(RawRequests(sessionDict))
    /\ chatPc' = "done"
    /\ UNCHANGED <<sessionInput, keyOrder, id, sessionDict, chat, chatId, reqIndex,
                   chatRaised, built, lastUpdate, chatDates, requestVars, toolVars, Log>>

\* len(chat)
ChatLen(c) == Len(c.requests)

\* list(iter(chat)): the triples __iter__ yields
ChatIter(c) ==
    [i \in 1..Len(c.requests) |->
       <<c.requests[i].request, c.requests[i].response, c.requests[i].size>>]

Next == ChatBegin \/ ChatRequest \/ ChatDone

Spec == Init /\ [][Next]_vars

-----------------------------------------------------------------------------
\* Chat.__init__ for every kind of argument, and called again by the caller

\* The exchanges of the documents: records, the texts of records, and what is
\* neither a record nor the text of one
BuildRecords ==
    TextRecords
    \cup { [message |-> [text |-> JStr(<<"Q", "?", "\n">>)], response |-> JList(<<>>)],
           [message |-> Hi, response |-> JList(<<TextA, EditBad>>)],
           TextOf(PlainRecord, AllKeys), TextOf(NoResponseRecord, AllKeys),
           TextOf(JList(<<>>), AllKeys),
           JStr(<<"n", "o">>), JInt(123) }

\* The arguments: documents as records, as texts, texts that are no document,
\* and values that are neither a record nor a text
BuildInputs ==
    { [requests |-> JList(reqs)] : reqs \in SeqUpTo(BuildRecords, MaxRequests) }
    \cup { EmptyDict }
    \cup { TextOf(d.value, d.order) : d \in Deserialized }
    \cup NotJson
    \cup { JInt(12345), JNull, JList(<<>>) }

KeyOrders == { AllKeys, Reverse(AllKeys) }
Ids == { <<>>, <<"m", "y", "i", "d">> }

InitSession ==
    /\ sessionInput \in BuildInputs
    /\ keyOrder \in (IF IsDict(sessionInput) THEN KeyOrders ELSE {AllKeys})
    /\ id \in Ids
    /\ sessionDict = EmptyDict
    /\ chat = NewChat
    /\ chatId = <<>>
    /\ reqIndex = 0
    /\ chatPc = "begin"
    /\ chatRaised = ""
    /\ built = <<>>
    /\ lastUpdate = Float(0, 1)
    /\ chatDates = NewDates(lastUpdate)
    /\ RequestIdle
    /\ ToolsIdle
    /\ Log = <<>>

\* The caller builds a session again from the argument it built one from
ChatAgain ==
    /\ chatPc = "done"
    /\ Len(built) + 1 < MaxBuilds
    /\ built' = Append(built, chatId)
    /\ chatPc' = "begin"
    /\ sessionDict' = EmptyDict
    /\ chat' = NewChat
    /\ chatId' = <<>>
    /\ chatDates' = NewDates(lastUpdate)
    /\ reqIndex' = 0
    /\ UNCHANGED <<sessionInput, keyOrder, id, chatRaised, lastUpdate, requestVars,
                   toolVars, Log>>

NextSession == ChatBegin \/ ChatRequest \/ ChatDone \/ ChatAgain

SpecSession == InitSession /\ [][NextSession]_vars

-----------------------------------------------------------------------------
\* Chat.__init__ for documents that carry creationDate and lastMessageDate

\* What a date field holds: numbers of milliseconds, and values of other types
DateValues ==
    { JInt(0), JInt(1000), JInt(1500), JInt(86400123), JInt(0 - 2000),
      JStr(<<"2", "5", "0", "0">>), JStr(<<" ", "7", "\n">>), JStr(<<"a", "b", "c">>),
      JStr(<<>>), JBool(TRUE), JBool(FALSE), JNull, JList(<<>>), JList(<<JInt(1000)>>),
      EmptyDict }

\* A document with each date field absent (<<>>) or holding a value (<<v>>)
Dated(requests, creationDate, lastMessageDate) ==
    Only([requests |-> JList(requests),
          creationDate |-> IF creationDate = <<>> THEN JNull ELSE creationDate[1],
          lastMessageDate |-> IF lastMessageDate = <<>> THEN JNull ELSE lastMessageDate[1]],
         {"requests"} \cup (IF creationDate = <<>> THEN {} ELSE {"creationDate"})
                      \cup (IF lastMessageDate = <<>> THEN {} ELSE {"lastMessageDate"}))

OptionalDates == {<<>>} \cup { <<v>> : v \in DateValues }

DatedInputs ==
    { Dated(reqs, c, l) :
        reqs \in SeqUpTo({PlainRecord}, MaxRequests),
        c \in OptionalDates, l \in OptionalDates }
    \cup { TextOf(d, AllKeys) : d \in {DatedDocument, [lastMessageDate |-> JStr(<<"n", "o">>)]} }

\* The lastUpdate arguments: the default 0.0, 42.0 and 123.45
LastUpdates == { Float(0, 1), Float(42, 1), Float(12345, 100) }

InitDates ==
    /\ sessionInput \in DatedInputs
    /\ keyOrder = AllKeys
    /\ id = <<>>
    /\ sessionDict = EmptyDict
    /\ chat = NewChat
    /\ chatId = <<>>
    /\ reqIndex = 0
    /\ chatPc = "begin"
    /\ chatRaised = ""
    /\ built = <<>>
    /\ lastUpdate \in LastUpdates
    /\ chatDates = NewDates(lastUpdate)
    /\ RequestIdle
    /\ ToolsIdle
    /\ Log = <<>>

SpecDates == InitDates /\ [][Next]_vars

-----------------------------------------------------------------------------
\* Workspaces.sort and Workspace.sort (Workspace.py)

\* The number of sort calls made on one object after its construction
MaxSorts == 2

A_id == <<"i", "d">>
A_createDate == <<"c", "r", "e", "a", "t", "e", "D", "a", "t", "e">>
A_lastUpdate == <<"l", "a", "s", "t", "U", "p", "d", "a", "t", "e">>
A_folder == <<"f", "o", "l", "d", "e", "r">>
A_name == <<"n", "a", "m", "e">>

\* Workspace.sorting_attributes() for Workspaces.sort, and
\* Chat.sorting_attributes() for Workspace.sort
sorting_attributes(owner) ==
    IF owner = "Workspaces" THEN {A_id, A_createDate, A_lastUpdate, A_folder}
    ELSE {A_id, A_createDate, A_lastUpdate}

\* The order of the characters that ids and folders are made of
Alphabet == <<"/", "a", "b", "c">>
Rank(c) == CHOOSE i \in 1..Len(Alphabet) : Alphabet[i] = c

\* s < t for two str
RECURSIVE StrLess(_, _)
StrLess(s, t) ==
    IF t = <<>> THEN FALSE
    ELSE IF s = <<>> THEN TRUE
    ELSE IF Head(s) # Head(t) THEN Rank(Head(s)) < Rank(Head(t))
    ELSE StrLess(Tail(s), Tail(t))

\* getattr(x, attribute) < getattr(y, attribute): id and folder are str, the
\* dates are numbers (whole seconds here)
KeyLess(attribute, x, y) ==
    IF attribute = A_id THEN StrLess(x.id, y.id)
    ELSE IF attribute = A_folder THEN StrLess(x.folder, y.folder)
    ELSE IF attribute = A_createDate THEN x.createDate < y.createDate
    ELSE x.lastUpdate < y.lastUpdate

\* x is put before y when they are out of order
Before(attribute, reverse, x, y) ==
    IF reverse THEN KeyLess(attribute, y, x) ELSE KeyLess(attribute, x, y)

\* One item put into a list that is in order, after every item it is not
\* before (the sort is stable, with reverse too)
RECURSIVE Insert(_, _, _, _)
Insert(x, sorted, attribute, reverse) ==
    IF sorted = <<>> THEN <<x>>
    ELSE IF Before(attribute, reverse, x, Head(sorted)) THEN <<x>> \o sorted
    ELSE <<Head(sorted)>> \o Insert(x, Tail(sorted), attribute, reverse)

\* list.sort(key=lambda w: getattr(w, attribute), reverse=reverse)
RECURSIVE ListSort(_, _, _)
ListSort(list, attribute, reverse) ==
    IF list = <<>> THEN <<>>
    ELSE Insert(list[Len(list)],
                ListSort(SubSeq(list, 1, Len(list) - 1), attribute, reverse),
                attribute, reverse)

\* Log.warning(f'Invalid sort attribute for Workspace: {self._sortAttribute}')
InvalidSortAttribute(attribute) ==
    [level |-> "warning", event |-> "Invalid sort attribute", arg |-> JStr(attribute)]

\* sort(sortBy) on this = [sortAttribute, sortReverse, list, Log] of an owner
sort(this, sortBy, owner) ==
    LET given == IF sortBy # <<>> THEN sortBy ELSE this.sortAttribute
        dash == given # <<>> /\ Head(given) = "-"
        attribute == IF dash THEN Tail(given) ELSE given
        reverse == this.sortReverse \/ dash
    IN  IF given = <<>> THEN this
        ELSE IF attribute \notin sorting_attributes(owner)
        THEN [this EXCEPT !.sortAttribute = attribute,
                          !.sortReverse = reverse,
                          !.Log = Append(@, InvalidSortAttribute(attribute))]
        ELSE [this EXCEPT !.sortAttribute = attribute,
                          !.sortReverse = reverse,
                          !.list = ListSort(@, attribute, reverse)]

\* Three workspaces and three chats whose attributes order them differently
WorkspaceItems ==
    { [id |-> <<"a">>, createDate |-> 3, lastUpdate |-> 5, folder |-> <<"/", "b">>],
      [id |-> <<"a", "b">>, createDate |-> 1, lastUpdate |-> 6, folder |-> <<"/", "c">>],
      [id |-> <<"b">>, createDate |-> 2, lastUpdate |-> 4, folder |-> <<"/", "a">>] }
ChatItems ==
    { [id |-> <<"a">>, createDate |-> 3, lastUpdate |-> 5],
      [id |-> <<"a", "b">>, createDate |-> 1, lastUpdate |-> 6],
      [id |-> <<"b">>, createDate |-> 2, lastUpdate |-> 4] }

\* The orders in which os.listdir may give the items
Listings(items) ==
    { l \in [1..Cardinality(items) -> items] :
        \A i, j \in DOMAIN l : l[i] = l[j] => i = j }

\* The names a caller gives: none, valid ones, descending ones, invalid ones
SortNames ==
    { <<>>, A_id, <<"-">> \o A_id, A_createDate, <<"-">> \o A_lastUpdate,
      A_folder, A_name, <<"-">> \o A_name }

\* The object after __init__(storageDir, sortBy) for a listing: the fields of
\* lines 33-35 (119-120), then refresh(), whose last statement is sort('')
Constructed(owner, listing, sortBy) ==
    sort([sortAttribute |-> sortBy, sortReverse |-> FALSE, list |-> listing,
          Log |-> <<>>], <<>>, owner)

InitSort ==
    /\ sortOwner \in {"Workspaces", "Workspace"}
    /\ \E sortBy \in SortNames,
          listing \in Listings(IF sortOwner = "Workspaces" THEN WorkspaceItems
                               ELSE ChatItems) :
         /\ sortAttribute = Constructed(sortOwner, listing, sortBy).sortAttribute
         /\ sortReverse = Constructed(sortOwner, listing, sortBy).sortReverse
         /\ sortList = Constructed(sortOwner, listing, sortBy).list
         /\ Log = Constructed(sortOwner, listing, sortBy).Log
         /\ sortCalls = <<sortBy>>
    /\ sortPc = "ready"
    /\ NoteIdle
    /\ RequestIdle
    /\ ChatIdle

\* Lines 60-78 (172-190): one call of sort(sortBy)
Sort ==
    /\ sortPc = "ready"
    /\ Len(sortCalls) <= MaxSorts
    /\ \E sortBy \in SortNames :
         LET after == sort([sortAttribute |-> sortAttribute, sortReverse |-> sortReverse,
                            list |-> sortList, Log |-> Log], sortBy, sortOwner)
         IN  /\ sortAttribute' = after.sortAttribute
             /\ sortReverse' = after.sortReverse
             /\ sortList' = after.list
             /\ Log' = after.Log
             /\ sortCalls' = Append(sortCalls, sortBy)
    /\ UNCHANGED <<sortPc, sortOwner, noteVars, requestVars, chatVars>>

NextSort == Sort

SpecSort == InitSort /\ [][NextSort]_vars

-----------------------------------------------------------------------------
\* Vault._note_full_path (Obsidian.py)

MD == <<".", "m", "d">>

\* os.path.join(a, b) of posixpath: an absolute b replaces a, and a
\* separator is put after a non-empty a that does not end with one
PathJoin(a, b) ==
    IF b # <<>> /\ Head(b) = "/" THEN b
    ELSE IF a = <<>> \/ a[Len(a)] = "/" THEN a \o b
    ELSE a \o <<"/">> \o b

\* s[-n:]
LastChars(s, n) == IF Len(s) <= n THEN s ELSE SubSeq(s, Len(s) - n + 1, Len(s))

\* Lines 171-190, the arguments being None (JNull) or a str
_note_full_path(vault_dir, note, note_folder, note_title) ==
    IF ~Truthy(note) /\ ~Truthy(note_title) THEN JNull
    ELSE
      LET title == IF note_title = JNull THEN <<>> ELSE note_title.str
          joined == IF Truthy(note) THEN PathJoin(vault_dir.str, note.str)
                    ELSE PathJoin(PathJoin(vault_dir.str, note_folder.str), title)
          path == IF LastChars(joined, 2) # MD THEN joined \o MD ELSE joined
      IN  IF Len(path) < 4 THEN JNull ELSE JStr(path)

\* The arguments Vault.__init__ passes on line 133: the vault directory, and
\* the options --note, --note-folder and --note-title
VaultDirs == { JStr(<<"/", "v">>), JStr(<<"v", "/">>) }
Notes ==
    { JNull, JStr(<<>>), JStr(<<"n">>), JStr(<<"n">> \o MD), JStr(<<"d", "/", "n">> \o MD),
      JStr(<<"/", "n">>), JStr(MD), JStr(<<"m", "d">>), JStr(<<"n", ".", "m">>) }
NoteFolders == { JStr(<<>>), JStr(<<"f">>), JStr(<<"f", "/">>) }
NoteTitles == { JNull, JStr(<<>>), JStr(<<"t">>), JStr(<<"t">> \o MD) }

InitNote ==
    /\ \E vault_dir \in VaultDirs, note \in Notes, note_folder \in NoteFolders,
          note_title \in NoteTitles :
         noteArgs = [vault_dir |-> vault_dir, note |-> note,
                     note_folder |-> note_folder, note_title |-> note_title]
    /\ noteFile = JNull
    /\ notePc = "call"
    /\ SortIdle
    /\ RequestIdle
    /\ ChatIdle
    /\ Log = <<>>

\* Line 133: self.note_file = self._note_full_path(...)
NoteFullPath ==
    /\ notePc = "call"
    /\ noteFile' = _note_full_path(noteArgs.vault_dir, noteArgs.note,
                                   noteArgs.note_folder, noteArgs.note_title)
    /\ notePc' = "done"
    /\ UNCHANGED <<noteArgs, sortVars, requestVars, chatVars, Log>>

NextNote == NoteFullPath

SpecNote == InitNote /\ [][NextNote]_vars

-----------------------------------------------------------------------------
\* Properties of the session aggregator

\* The raw exchange the loop of Chat.__init__ takes next
NextRaw == RawRequests(sessionDict)[reqIndex + 1]
\* The raw exchange it took last
LastRaw == RawRequests(sessionDict)[reqIndex]
AtRawRequest == chatPc = "loop" /\ reqIndex < Len(RawRequests(sessionDict))

\* A raw exchange whose isCanceled field is true
CanceledFlag(req) == "isCanceled" \in DOMAIN req /\ req["isCanceled"] = JBool(TRUE)

\* A raw exchange whose prompt text is absent or the empty string
EmptyPromptText(req) ==
    \/ "message" \notin DOMAIN req
    \/ "text" \notin DOMAIN req["message"]
    \/ req["message"]["text"] = JStr(<<>>)

HasResponseItems(req) == "response" \in DOMAIN req /\ req["response"].list # <<>>

\* C1: a canceled exchange, whatever its prompt and response items, is not
\* appended to the exchange list and adds nothing to the total size, and
\* Request construction for it ends with ChatRequestCanceled.
C1_CanceledNeverCounts ==
    [][ (AtRawRequest /\ CanceledFlag(NextRaw))
          => /\ chat' = chat
             /\ RequestInit(NextRaw).raised = "ChatRequestCanceled" ]_vars

\* A canceled exchange with a prompt and response items has been taken after
\* an exchange that was kept.
C1_Witness ==
    /\ reqIndex = 2
    /\ CanceledFlag(LastRaw)
    /\ ~EmptyPromptText(LastRaw)
    /\ HasResponseItems(LastRaw)
    /\ Len(chat.requests) = 1

\* C2 as stated: an exchange with an empty or absent prompt text is not appended,
\* adds nothing to the total size, and Request construction for it ends with
\* ChatRequestEmptyRequest.
C2_EmptyPromptRaisesEmpty ==
    [][ (AtRawRequest /\ EmptyPromptText(NextRaw))
          => /\ chat' = chat
             /\ RequestInit(NextRaw).raised = "ChatRequestEmptyRequest" ]_vars

\* C2 amended: an exchange with an empty or absent prompt text is not appended
\* and adds nothing to the total size; Request construction for it ends with
\* ChatRequestEmptyRequest unless its canceled flag is true, and then with
\* ChatRequestCanceled.
C2_EmptyPromptNeverCounts ==
    [][ (AtRawRequest /\ EmptyPromptText(NextRaw))
          => /\ chat' = chat
             /\ RequestInit(NextRaw).raised =
                  IF CanceledFlag(NextRaw) THEN "ChatRequestCanceled"
                  ELSE "ChatRequestEmptyRequest" ]_vars

\* An exchange with an empty prompt and response items, not canceled, has been
\* taken after an exchange that was kept.
C2_Witness ==
    /\ reqIndex = 2
    /\ EmptyPromptText(LastRaw)
    /\ ~CanceledFlag(LastRaw)
    /\ HasResponseItems(LastRaw)
    /\ Len(chat.requests) = 1

\* An exchange that triggers a skip: canceled, empty prompt, or parse failure
TriggersSkip(req) ==
    \/ CanceledFlag(req)
    \/ EmptyPromptText(req)
    \/ RequestInit(req).raised = "ChatRequestParseError"

\* C3: the constructed session's exchange count is at most the number N of raw
\* exchanges, and equals N exactly when no exchange triggered a skip.
C3_CountAtMostRaw ==
    chatPc = "done" =>
      LET raw == RawRequests(sessionDict)
      IN  /\ Len(chat.requests) <= Len(raw)
          /\ Len(chat.requests) = Len(raw)
               <=> \A i \in 1..Len(raw) : ~TriggersSkip(raw[i])

\* A session is constructed from several raw exchanges, some kept, some skipped.
C3_Witness ==
    /\ chatPc = "done"
    /\ Len(RawRequests(sessionDict)) >= 2
    /\ Len(chat.requests) >= 1
    /\ Len(chat.requests) < Len(RawRequests(sessionDict))

RECURSIVE SumOfSizes(_)
SumOfSizes(rs) == IF rs = <<>> THEN 0 ELSE Head(rs).size + SumOfSizes(Tail(rs))

\* C5: at every point of the aggregation and in the finished session, the total
\* size is the sum of the sizes of the exchanges in the exchange list.
C5_TotalIsSumOfMembers == chat.size = SumOfSizes(chat.requests)

\* A finished session that kept two exchanges with responses.
C5_Witness ==
    /\ chatPc = "done"
    /\ Len(chat.requests) = 2
    /\ \A i \in 1..2 : Len(chat.requests[i].response) > 0
    /\ chat.size > 0

\* C19: the exchange list starts empty and each raw exchange, taken in source
\* order, either adds the triple (prompt, response, size) of its Request at the
\* end of what iteration yields, or, when it is skipped, leaves it as it is:
\* the triples are those of the surviving exchanges, in source order, none
\* moved or repeated.
C19_IterationInSourceOrder ==
    /\ [] ((chatPc = "loop" /\ reqIndex = 0) => ChatIter(chat) = <<>>)
    /\ [][ AtRawRequest
             => LET r == RequestInit(NextRaw)
                IN  ChatIter(chat') =
                      IF r.raised = ""
                      THEN Append(ChatIter(chat),
                                  <<r.self.request, r.self.response, r.self.size>>)
                      ELSE ChatIter(chat) ]_vars
    /\ [] (ChatLen(chat) = Len(ChatIter(chat)))

\* A finished session that kept two different exchanges.
C19_Witness ==
    /\ chatPc = "done"
    /\ Len(ChatIter(chat)) = 2
    /\ ChatIter(chat)[1] # ChatIter(chat)[2]
    /\ ChatIter(chat)[2][3] > 0

-----------------------------------------------------------------------------
\* Properties of the session's identity and of its failures

\* C14 as stated: a session built again from the argument a session was built
\* from (the record in memory, or the text), with no id supplied, has the id
\* the first one had.
C14_SameArgumentSameId ==
    (chatPc \in {"loop", "done"} /\ id = <<>> /\ built # <<>>) => chatId = built[1]

\* The document with the prompt text of its i-th exchange replaced by p
WithPrompt(document, i, p) ==
    [document EXCEPT !["requests"] =
       JList([@.list EXCEPT ![i] = [@ EXCEPT !["message"] = [text |-> JStr(p)]]])]

OtherPrompts == { <<>>, <<"H", "i">>, <<"H", "i", "!">>, <<"h", "i">> }

\* An exchange given as a record with a prompt text
HasPromptText(req) ==
    IsDict(req) /\ "message" \in DOMAIN req /\ "text" \in DOMAIN req["message"]

\* C15: with no id supplied, the id is the one the same document has with its
\* keys in any other order, and differs from the id of the document with any
\* one prompt text changed.
C15_IdFromCanonicalContent ==
    (chatPc = "loop" /\ reqIndex = 0 /\ id = <<>>)
      => /\ \A order \in KeyOrders : SessionId(<<>>, sessionDict, order) = chatId
         /\ \A i \in 1..Len(RawRequests(sessionDict)) : \A p \in OtherPrompts :
              ( /\ HasPromptText(RawRequests(sessionDict)[i])
                /\ RawRequests(sessionDict)[i]["message"]["text"] # JStr(p) )
                => SessionId(<<>>, WithPrompt(sessionDict, i, p), keyOrder) # chatId

\* The id has been derived for a document of two records whose keys are not
\* in sorted order.
C15_Witness ==
    /\ chatPc = "loop" /\ reqIndex = 0 /\ id = <<>>
    /\ keyOrder = Reverse(AllKeys)
    /\ Len(RawRequests(sessionDict)) = 2
    /\ \A i \in 1..2 : /\ HasPromptText(RawRequests(sessionDict)[i])
                       /\ "response" \in DOMAIN RawRequests(sessionDict)[i]
    /\ chatId # <<>>

\* C16: a supplied id that is not empty is the session's id whatever the
\* document holds; with an empty supplied id the session's id is a digest.
C16_SuppliedIdKept ==
    chatPc \in {"loop", "done"}
      => /\ id # <<>> => chatId = id
         /\ id = <<>> => (chatId # <<>> /\ Head(chatId) = "md5")

\* A session has been built with a supplied id from a document with exchanges.
C16_Witness ==
    /\ chatPc = "done"
    /\ id # <<>>
    /\ chatId = id
    /\ Len(chat.requests) >= 1

\* An exchange that is neither a record nor the text of one
MalformedExchange(req) ==
    /\ ~IsDict(req)
    /\ IsStr(req) => (loads(req.str).raised # "" \/ ~IsDict(loads(req.str).value))

\* C17 as stated: an exchange that is malformed input, or whose edit region
\* cannot be parsed, is dropped alone: the session list and size stay as they
\* are, the loop goes on, and the failure is logged, not raised.
C17_MalformedExchangeDropped ==
    [][ ( /\ AtRawRequest
          /\ \/ MalformedExchange(NextRaw)
             \/ RequestInit(NextRaw).raised = "ChatRequestParseError" )
          => /\ chat' = chat
             /\ chatPc' = "loop"
             /\ chatRaised' = ""
             /\ Log' # Log ]_vars

\* An argument that is neither a record nor the text of one
InvalidDocument(input) ==
    /\ ~IsDict(input)
    /\ IsStr(input) => (loads(input.str).raised # "" \/ ~IsDict(loads(input.str).value))

\* The exceptions that are a ValueError
ValueErrors == {"ValueError", "JSONDecodeError"}

\* C18 as stated: Chat construction from an argument that is neither a record
\* nor the text of one ends with ValueError and gives no session; Request
\* construction from an input that is neither a record nor a text raises
\* ValueError.
C18_InvalidDocumentRaisesValueError ==
    /\ [] ( (chatPc # "begin" /\ InvalidDocument(sessionInput))
              => (chatPc = "raised" /\ chatRaised \in ValueErrors) )
    /\ [][ (AtRawRequest /\ ~IsDict(NextRaw) /\ ~IsStr(NextRaw))
             => (chatPc' = "raised" /\ chatRaised' = "ValueError") ]_vars

\* What the claim has a timestamp be: the default when the field is absent or
\* holds no number, the number of milliseconds divided by 1000 otherwise
ClaimedTimestamp(document, key, default) ==
    IF key \notin DOMAIN document THEN default
    ELSE IF IsInt(document[key]) THEN Float(document[key].int, 1000)
    ELSE default

\* C21 as stated: the creation and last-update timestamps are the supplied
\* lastUpdate when the document has no creationDate / lastMessageDate, the
\* field divided by 1000 when it is a number of milliseconds, and the supplied
\* lastUpdate when the field is not a number.
C21_TimestampsFromDocument ==
    (chatPc \in {"loop", "done"} /\ IsDict(sessionDict))
      => /\ chatDates.createDate = ClaimedTimestamp(sessionDict, "creationDate", lastUpdate)
         /\ chatDates.lastUpdate = ClaimedTimestamp(sessionDict, "lastMessageDate", lastUpdate)

-----------------------------------------------------------------------------
\* Properties of the record parser and renderer

\* C4: the size of an exchange that is constructed is the length of its prompt
\* text plus the length of its rendered response text.
C4_SizeIsPromptPlusResponse ==
    pc = "done" => self.size = Len(self.request) + Len(self.response)

\* An exchange is constructed with a prompt and a rendered response.
C4_Witness == pc = "done" /\ Len(self.request) > 0 /\ Len(self.response) > 0

\* The item the rendering loop takes next
AtItem == pc = "loop" /\ respIndex < Len(responses)
NextItem == responses[respIndex + 1]

\* A plain-text item: a value and no kind
PlainText(item) == IsDict(item) /\ "value" \in DOMAIN item /\ "kind" \notin DOMAIN item

\* A tool-invocation marker with hidden presentation
HiddenMarkerItem(item) ==
    /\ IsDict(item)
    /\ "kind" \in DOMAIN item /\ item["kind"] = JStr(K_toolInvocation)
    /\ "presentation" \in DOMAIN item /\ item["presentation"] = JStr(K_hidden)

\* A value that, trimmed, is the three-backquote fence
StandaloneFence(item) == Strip(item["value"].str) = <<BQ, BQ, BQ>>

RECURSIVE ConcatValues(_)
ConcatValues(items) ==
    IF items = <<>> THEN <<>> ELSE Head(items)["value"].str \o ConcatValues(Tail(items))

\* C6 as stated: for a record whose response list holds only plain-text items
\* (so no hidden marker), the rendered response is the concatenation of the
\* items' values in source order, a value that is just the fence included.
C6_PlainTextConcatenates ==
    (pc = "done" /\ \A i \in 1..Len(responses) : PlainText(responses[i]))
      => self.response = ConcatValues(responses)

\* C7 as stated: once a hidden marker has been seen in a record, a plain-text
\* item is dropped only if its trimmed value is the fence; any other plain-text
\* item is appended verbatim.
C7_OnlyFenceDroppedAfterMarker ==
    [][ ( /\ AtItem
          /\ \E j \in 1..respIndex : HiddenMarkerItem(responses[j])
          /\ PlainText(NextItem)
          /\ ~StandaloneFence(NextItem) )
          => responseValue' = responseValue \o NextItem["value"].str ]_vars

\* A textEditGroup item with a uri
EditGroupWithUri(item) ==
    /\ IsDict(item)
    /\ "kind" \in DOMAIN item /\ item["kind"] = JStr(K_textEditGroup)
    /\ "uri" \in DOMAIN item /\ IsDict(item["uri"]) /\ DOMAIN item["uri"] # {}

\* The edit regions of an item, over all its edit groups, in source order
RECURSIVE Flatten(_)
Flatten(edits) == IF edits = <<>> THEN <<>> ELSE Head(edits).list \o Flatten(Tail(edits))
RegionsOf(item) == IF "edits" \in DOMAIN item THEN Flatten(item["edits"].list) ELSE <<>>

\* An edit region that is not a record, lacks text, lacks range, lacks
\* startLineNumber or endLineNumber, or whose line numbers are not integers
MalformedRegion(r) ==
    \/ ~IsDict(r)
    \/ "text" \notin DOMAIN r
    \/ "range" \notin DOMAIN r
    \/ ~IsDict(r["range"])
    \/ "startLineNumber" \notin DOMAIN r["range"]
    \/ "endLineNumber" \notin DOMAIN r["range"]
    \/ ~IsInt(r["range"]["startLineNumber"])
    \/ ~IsInt(r["range"]["endLineNumber"])

\* C8 as stated: once the loop has taken a textEditGroup item (with a uri) that
\* holds a malformed edit region, construction has raised
\* ChatRequestParseError and the object holds no rendered output.
C8_MalformedRegionRaises ==
    \A k \in 1..respIndex :
      ( /\ EditGroupWithUri(responses[k])
        /\ \E i \in 1..Len(RegionsOf(responses[k])) :
             MalformedRegion(RegionsOf(responses[k])[i]) )
        => /\ pc = "raised"
           /\ raised = "ChatRequestParseError"
           /\ self.response = <<>>

\* A well-formed edit region whose range does not end before it starts
WellFormedRegion(r) ==
    /\ ~MalformedRegion(r)
    /\ IsStr(r["text"])
    /\ r["range"]["endLineNumber"].int >= r["range"]["startLineNumber"].int

WellFormedEditGroup(item) ==
    /\ EditGroupWithUri(item)
    /\ "fsPath" \in DOMAIN item["uri"] /\ IsStr(item["uri"]["fsPath"])
    /\ \A i \in 1..Len(RegionsOf(item)) : WellFormedRegion(RegionsOf(item)[i])

\* The line a well-formed region is summarized by
SummaryLine(r) ==
    LET n == Len(r["text"].str)
        S == r["range"]["startLineNumber"].int
        E == r["range"]["endLineNumber"].int
        what == IF n = 0 THEN <<"d", "e", "l", "e", "t", "e", "d", " ">>
                ELSE <<"a", "d", "d", "e", "d", " ">> \o IntToStr(n)
                       \o (IF n > 1 THEN <<" ", "c", "h", "a", "r", "s">>
                           ELSE <<" ", "c", "h", "a", "r">>)
                       \o <<" ", "o", "f", " ", "t", "e", "x", "t", ",", " ">>
        where == IF E > S
                 THEN <<"l", "i", "n", "e", " ">> \o IntToStr(S) \o <<" ", "t", "o", " ">>
                        \o IntToStr(E)
                 ELSE <<"l", "i", "n", "e", " ">> \o IntToStr(S) \o <<" ">>
    IN  <<" ", " ", "-", " ">> \o what \o where \o <<"\n">>

RECURSIVE SummaryLines(_)
SummaryLines(rs) ==
    IF rs = <<>> THEN <<>> ELSE SummaryLine(Head(rs)) \o SummaryLines(Tail(rs))

\* C9: a well-formed textEditGroup item renders the header line with its path,
\* then one line per edit region in source order over all edit groups
\* ("deleted" for an empty text, "added N char" with "chars" exactly when
\* N > 1, the start line alone for a single line and "line S to E" when
\* E > S), then one blank line.
C9_EditGroupSummary ==
    [][ (AtItem /\ WellFormedEditGroup(NextItem))
          => /\ pc' = "loop"
             /\ responseValue' =
                  responseValue
                    \o <<"E", "d", "i", "t", "e", "d", " ", "f", "i", "l", "e", ":", " ", BQ>>
                    \o NextItem["uri"]["fsPath"].str \o <<BQ, "\n">>
                    \o SummaryLines(RegionsOf(NextItem))
                    \o <<"\n">> ]_vars

\* A record is rendered whose textEditGroup item holds a region that adds
\* several characters and one that deletes.
C9_Witness ==
    /\ pc = "done"
    /\ Len(responses) >= 2
    /\ WellFormedEditGroup(responses[2])
    /\ \E i, j \in 1..Len(RegionsOf(responses[2])) :
         /\ i < j
         /\ Len(RegionsOf(responses[2])[i]["text"].str) > 1
         /\ Len(RegionsOf(responses[2])[j]["text"].str) = 0

\* An inlineReference item whose reference object has neither fsPath nor name
UnknownReferenceItem(item) ==
    /\ IsDict(item)
    /\ "kind" \in DOMAIN item /\ item["kind"] = JStr(K_inlineReference)
    /\ "inlineReference" \in DOMAIN item
    /\ IsDict(item["inlineReference"])
    /\ "fsPath" \notin DOMAIN item["inlineReference"]
    /\ "name" \notin DOMAIN item["inlineReference"]

\* What such an item renders: the marker in single backquotes, then the fenced
\* dump of the reference object
UnknownReferenceText(item) ==
    <<BQ>> \o UNKNOWN_REFERENCE \o <<BQ, "\n", BQ, BQ, BQ>>
      \o pformat(item["inlineReference"]) \o <<BQ, BQ, BQ, "\n">>

\* C10: an inlineReference item with neither fsPath nor name never makes
\* construction fail; it renders the unknown-reference marker and the fenced
\* dump, and the items around it are rendered as they are without it.
C10_UnknownReferenceRenders ==
    /\ [][ (AtItem /\ UnknownReferenceItem(NextItem))
             => /\ pc' = "loop"
                /\ raised' = ""
                /\ responseValue' = responseValue \o UnknownReferenceText(NextItem) ]_vars
    /\ [] ( ( /\ pc = "done"
              /\ Len(responses) = 3
              /\ responses[1] = TextA /\ responses[3] = TextB
              /\ UnknownReferenceItem(responses[2]) )
              => self.response =
                   <<"A">> \o UnknownReferenceText(responses[2]) \o <<"b", " ">> )

\* A record with such an item between two texts is rendered.
C10_Witness ==
    /\ pc = "done"
    /\ Len(responses) = 3
    /\ responses[1] = TextA /\ responses[3] = TextB
    /\ UnknownReferenceItem(responses[2])
    /\ DOMAIN responses[2]["inlineReference"] # {}

\* An inlineReference item with its reference object
ReferenceItem(item) ==
    /\ IsDict(item)
    /\ "kind" \in DOMAIN item /\ item["kind"] = JStr(K_inlineReference)
    /\ "inlineReference" \in DOMAIN item
    /\ IsDict(item["inlineReference"])

\* The text the claim has a reference render: the file path, otherwise the
\* name, otherwise the unknown-reference marker
PreferredReference(item) ==
    LET inlineReference == item["inlineReference"]
    IN  IF "fsPath" \in DOMAIN inlineReference THEN inlineReference["fsPath"].str
        ELSE IF "name" \in DOMAIN inlineReference THEN inlineReference["name"].str
        ELSE <<"*", "*", "u", "n", "k", "n", "o", "w", "n", " ", "r", "e", "f", "e", "r",
               "e", "n", "c", "e", "*", "*">>

IsPrefix(s, t) == Len(s) <= Len(t) /\ SubSeq(t, 1, Len(s)) = s

\* C11 as stated: an inlineReference item renders, in single backquotes and at
\* its place between the neighbouring plain-text items, the file path when
\* fsPath is present (also when name is present as well), otherwise the name,
\* otherwise the unknown-reference marker.
C11_ReferencePrefersPath ==
    /\ [][ (AtItem /\ ReferenceItem(NextItem))
             => /\ pc' = "loop"
                /\ IsPrefix(responseValue \o <<BQ>> \o PreferredReference(NextItem) \o <<BQ>>,
                            responseValue') ]_vars
    /\ [] ( ( /\ pc = "done"
              /\ Len(responses) = 3
              /\ responses[1] = TextA /\ responses[3] = TextB
              /\ ReferenceItem(responses[2]) )
              => IsPrefix(<<"A", BQ>> \o PreferredReference(responses[2]) \o <<BQ>>,
                          self.response) )

\* An item whose kind is a non-empty string that no branch handles and that is
\* not in the ignore set
UnknownKindItem(item) ==
    /\ IsDict(item)
    /\ "kind" \in DOMAIN item /\ IsStr(item["kind"])
    /\ item["kind"].str # <<>>
    /\ item["kind"].str \notin
         {K_toolInvocation, K_textEditGroup, K_inlineReference} \cup SKIPPED_RESPONSE_KINDS

\* C12: an item of an unknown kind appends nothing to the response (with or
\* without a value), emits exactly one diagnostic, which names that kind, and
\* never makes construction fail.
C12_UnknownKindLoggedOnce ==
    [][ (AtItem /\ UnknownKindItem(NextItem))
          => /\ responseValue' = responseValue
             /\ Log' = Append(Log, [level |-> "info",
                                    event |-> "skipping unhandled response kind",
                                    arg |-> NextItem["kind"]])
             /\ pc' = "loop"
             /\ raised' = "" ]_vars

\* A record is rendered in which an item of an unknown kind that carries a
\* value stands between two texts: one diagnostic, and the texts alone.
C12_Witness ==
    /\ pc = "done"
    /\ Len(responses) = 3
    /\ UnknownKindItem(responses[2]) /\ "value" \in DOMAIN responses[2]
    /\ self.response = <<"A", "b", " ">>
    /\ Len(Log) = 1 /\ Log[1].arg = responses[2]["kind"]

\* An item whose kind is in the ignore set
SkippedKindItem(item) ==
    /\ IsDict(item)
    /\ "kind" \in DOMAIN item /\ IsStr(item["kind"])
    /\ item["kind"].str \in SKIPPED_RESPONSE_KINDS

\* An item that carries both a kind and a non-empty value
KindWithValue(item) ==
    /\ IsDict(item)
    /\ "kind" \in DOMAIN item
    /\ "value" \in DOMAIN item /\ IsStr(item["value"]) /\ item["value"].str # <<>>

\* C13: an item of a kind of the ignore set appends nothing, value or not, and
\* emits no diagnostic; the value of an item that has a kind is never appended
\* as plain text.
C13_SkippedKindsRenderNothing ==
    /\ [][ (AtItem /\ SkippedKindItem(NextItem))
             => /\ responseValue' = responseValue
                /\ Log' = Log
                /\ pc' = "loop" ]_vars
    /\ [][ (AtItem /\ KindWithValue(NextItem))
             => responseValue' # responseValue \o NextItem["value"].str ]_vars

\* Every kind of the ignore set has been rendered in an item that carries a
\* value, between two texts.
C13_Witness ==
    /\ pc = "done"
    /\ Len(responses) = 3
    /\ responses[1] = TextA /\ responses[3] = TextB
    /\ SkippedKindItem(responses[2]) /\ KindWithValue(responses[2])
    /\ self.response = <<"A", "b", " ">>
    /\ Log = <<>>

\* A text that is the serialization of a record
TextOfRecord(input) ==
    IsStr(input) /\ loads(input.str).raised = "" /\ IsDict(loads(input.str).value)

\* The exceptions that stand for malformed input: the parse error, and
\* ValueError with its subclass JSONDecodeError
MalformedInputErrors == {"ChatRequestParseError", "ValueError", "JSONDecodeError"}

\* C22 as stated: construction from the text of a record ends as construction
\* from the record does (the same exception, or the same prompt, rendered
\* response and size), and construction from a text that is not the
\* serialization of a record ends with the malformed-input error.
C22_TextAsRecord ==
    /\ (pc \in {"done", "raised"} /\ TextOfRecord(requestInput))
         => /\ raised = RequestInitIn(loads(requestInput.str).value,
                                     loads(requestInput.str).order).raised
            /\ pc = "done" =>
                 LET r == RequestInitIn(loads(requestInput.str).value,
                                        loads(requestInput.str).order).self
                 IN  /\ self.request = r.request
                     /\ self.response = r.response
                     /\ self.size = r.size
    /\ (pc # "decode" /\ IsStr(requestInput) /\ ~TextOfRecord(requestInput))
         => (pc = "raised" /\ raised \in MalformedInputErrors)

\* The ways construction of an exchange is meant to end, other than success
ClassifiedErrors ==
    {"ChatRequestCanceled", "ChatRequestEmptyRequest", "ChatRequestParseError"}

\* C23 as stated: for a record, whatever fields are absent or wrongly typed,
\* construction ends with success, ChatRequestCanceled,
\* ChatRequestEmptyRequest or ChatRequestParseError, and with no other
\* exception.
C23_OnlyClassifiedErrors ==
    (pc = "raised" /\ IsDict(requestInput)) => raised \in ClassifiedErrors

\* C24 as stated: construction from a record in memory leaves the record as it
\* was, its response list included, whether construction succeeds or not.
C24_RecordUnchanged ==
    [][ IsDict(requestInput) => requestInput' = requestInput ]_vars

\* A hidden marker is among the items the loop has taken
MarkerSeen == \E j \in 1..respIndex : HiddenMarkerItem(responses[j])

\* C25: within a record the flag is not set before a hidden marker is taken
\* and is set from then on, whatever items follow; a plain-text item that is
\* just the fence, taken after the marker, appends nothing; a plain-text item
\* taken before any marker is appended unless it is just the fence, as in a
\* record without a marker.
C25_FlagSticky ==
    /\ [] (pc = "loop" => (hiddenPresentation <=> MarkerSeen))
    /\ [][ (pc = "loop" /\ hiddenPresentation /\ pc' \in {"loop", "done"})
             => hiddenPresentation' ]_vars
    /\ [][ (AtItem /\ MarkerSeen /\ PlainText(NextItem) /\ StandaloneFence(NextItem))
             => responseValue' = responseValue ]_vars
    /\ [][ (AtItem /\ ~MarkerSeen /\ PlainText(NextItem) /\ ~StandaloneFence(NextItem))
             => responseValue' = responseValue \o NextItem["value"].str ]_vars

\* A record is rendered in which a hidden marker comes first, an item that
\* renders text comes next, and a fence comes last.
C25_Witness ==
    /\ pc = "done"
    /\ Len(responses) = 3
    /\ HiddenMarkerItem(responses[1])
    /\ IsDict(responses[2]) /\ ~HiddenMarkerItem(responses[2]) /\ ~PlainText(responses[2])
    /\ PlainText(responses[3]) /\ StandaloneFence(responses[3])
    /\ hiddenPresentation
    /\ self.response # <<>>

\* C26: the flag is not set when the loop of a record starts, whatever the
\* records before held, and the response of a record is the one the record
\* has when it is constructed alone.
C26_FlagPerRecord ==
    /\ [][ (pc = "decode" /\ pc' = "loop") => ~hiddenPresentation' ]_vars
    /\ [] ( pc = "done" =>
              self.response = RequestInitIn(requestInput, keyOrder).self.response )

\* A record with texts and no marker has been constructed after a record
\* with a hidden marker, and its texts are rendered.
C26_Witness ==
    /\ pc = "done"
    /\ earlier # <<>>
    /\ \E j \in 1..Len(earlier[1]["response"].list) :
         HiddenMarkerItem(earlier[1]["response"].list[j])
    /\ \A j \in 1..Len(responses) : ~HiddenMarkerItem(responses[j])
    /\ self.response = <<"A", "b", " ">>

\* C27 as stated: an item makes the loop emit a diagnostic if and only if it
\* has a non-empty kind that is none of toolInvocation, textEditGroup,
\* inlineReference or a kind of the ignore set; every other item emits none.
C27_DiagnosticIffUnknownKind ==
    [][ AtItem => ((Log' # Log) <=> UnknownKindItem(NextItem)) ]_vars

\* An item of kind textEditGroup
EditGroupItem(item) ==
    IsDict(item) /\ "kind" \in DOMAIN item /\ item["kind"] = JStr(K_textEditGroup)

\* Its uri carries no file path: absent, empty, or a dict without fsPath
NoFilePath(item) ==
    \/ "uri" \notin DOMAIN item
    \/ ~Truthy(item["uri"])
    \/ IsDict(item["uri"]) /\ "fsPath" \notin DOMAIN item["uri"]

\* The header line with the unknown-file marker in place of the path
UnknownFileHeader == EditedFile \o UNKNOWN_FILE \o <<BQ, "\n">>

\* The regions of the item summarized after that header, or the failure of
\* their validation
SummaryAfter(item, value) == EditSummary(item, value \o UnknownFileHeader)

\* C28 as stated: an item of kind textEditGroup whose uri carries no file path
\* is rendered by the file-edit branch: the header line with the unknown-file
\* marker, then the summary of its regions and a blank line, or the failure of
\* the regions' validation; no diagnostic is emitted.
C28_EditGroupAlwaysRendered ==
    [][ (AtItem /\ EditGroupItem(NextItem) /\ NoFilePath(NextItem))
          => /\ raised' = SummaryAfter(NextItem, responseValue).raised
             /\ raised' = "" =>
                  responseValue' =
                      SummaryAfter(NextItem, responseValue).responseValue \o <<"\n">>
             /\ Log' = Log ]_vars

\* A record with a prompt, not canceled, whose response list is empty or absent
NoResponseItems(req) ==
    /\ IsDict(req)
    /\ ~CanceledFlag(req)
    /\ ~EmptyPromptText(req)
    /\ ~HasResponseItems(req)

\* The list the loop iterates when the response list was empty
OnlyPlaceholder ==
    responses = <<JStr(<<"_", "N", "o", " ", "r", "e", "s", "p", "o", "n", "s", "e", "_">>)>>

\* C20: for a record with a prompt and an empty or absent response list,
\* construction succeeds, the rendered response is the empty string,
\* rawResponse is "[]" and the size is the length of the prompt: the
\* placeholder is neither counted nor dumped.
C20_NoResponseRendersEmpty ==
    /\ [][ (pc = "decode" /\ NoResponseItems(requestInput))
             => /\ pc' = "loop"
                /\ OnlyPlaceholder'
                /\ self'.rawResponse = <<"[", "]">> ]_vars
    /\ [][ (pc = "loop" /\ OnlyPlaceholder) => pc' \in {"loop", "done"} ]_vars
    /\ [] ( (pc = "done" /\ OnlyPlaceholder)
              => /\ self.response = <<>>
                 /\ self.rawResponse = <<"[", "]">>
                 /\ self.size = Len(self.request) )

\* A record with a prompt and an empty response list has been constructed.
C20_Witness ==
    /\ pc = "done"
    /\ OnlyPlaceholder
    /\ IsDict(requestInput) /\ "response" \in DOMAIN requestInput
    /\ self.size = 2

-----------------------------------------------------------------------------
\* Properties of the sorted lists

\* The name given most recently: the last non-empty sortBy of the constructor
\* and the calls after it
RECURSIVE LastGiven(_)
LastGiven(calls) ==
    IF calls = <<>> THEN <<>>
    ELSE IF calls[Len(calls)] # <<>> THEN calls[Len(calls)]
    ELSE LastGiven(SubSeq(calls, 1, Len(calls) - 1))

Descending(name) == name # <<>> /\ Head(name) = "-"
Named(name) == IF Descending(name) THEN Tail(name) ELSE name

\* The list is in ascending (descending) order of an attribute
Ordered(list, attribute, descending) ==
    \A i \in 1..(Len(list) - 1) :
        IF descending THEN KeyLess(attribute, list[i + 1], list[i])
        ELSE KeyLess(attribute, list[i], list[i + 1])

\* C29 as stated: when the name given most recently is a valid one, the list
\* is in descending order of that attribute if the name started with '-' and
\* in ascending order otherwise; a call with an invalid name leaves the order
\* of the list as it was.
C29_SortDirection ==
    /\ [] ( (sortPc = "ready" /\ Named(LastGiven(sortCalls)) \in sorting_attributes(sortOwner))
              => Ordered(sortList, Named(LastGiven(sortCalls)),
                         Descending(LastGiven(sortCalls))) )
    /\ [][ (sortPc = "ready" /\ Named(LastGiven(sortCalls')) \notin sorting_attributes(sortOwner))
              => sortList' = sortList ]_vars

-----------------------------------------------------------------------------
\* Properties of the note path

EndsWith(s, suffix) == Len(suffix) <= Len(s) /\ LastChars(s, Len(suffix)) = suffix

\* The note name or the title that the path is made of
GivenName == IF Truthy(noteArgs.note) THEN noteArgs.note.str ELSE noteArgs.note_title.str

\* C30 as stated: a note path that is computed ends with ".md" once: it is the
\* given note name or title with ".md" appended when the name does not end
\* with ".md", and with nothing appended when it does.
C30_OneExtension ==
    (notePc = "done" /\ noteFile # JNull)
        => /\ EndsWith(noteFile.str, MD)
           /\ ~EndsWith(noteFile.str, MD \o MD)
           /\ EndsWith(noteFile.str,
                       IF EndsWith(GivenName, MD) THEN GivenName ELSE GivenName \o MD)

=============================================================================
